---- MODULE Spec2Model ----
(***************************************************************************)
(* Witness Field: the witness lifecycle and replication engine.            *)
(*                                                                         *)
(* The main witness store is the module that begins at line 361 of         *)
(* src/src/routes/sync-test/+page.svelte (witnessStore.ts); an older       *)
(* revision of the same module is src/unnamed/part_006.                    *)
(*                                                                         *)
(* Strings are sequences of character codes.  Times are milliseconds, as   *)
(* in the source, counted from the start of the run.                       *)
(***************************************************************************)
EXTENDS Integers, Sequences, FiniteSets, TLC

(***************************************************************************)
(* Bounds of the model.                                                    *)
(***************************************************************************)
\* the time-bounded proof search stops at some nonce in 0..MaxNonce
MaxNonce == 1

(***************************************************************************)
(* Strings.                                                                *)
(***************************************************************************)
\* Number -> String (decimal), as in the concatenation  text + nonce
RECURSIVE numberToString(_)
numberToString(n) ==
    IF n < 10 THEN <<48 + n>> ELSE Append(numberToString(n \div 10), 48 + (n % 10))

isWhitespace(c) == c \in {9, 10, 11, 12, 13, 32, 160}

RECURSIVE trimStart(_)
trimStart(s) ==
    IF s # <<>> /\ isWhitespace(Head(s)) THEN trimStart(Tail(s)) ELSE s

RECURSIVE trimEnd(_)
trimEnd(s) ==
    IF s # <<>> /\ isWhitespace(s[Len(s)]) THEN trimEnd(SubSeq(s, 1, Len(s) - 1)) ELSE s

\* String.prototype.trim
trim(s) == trimEnd(trimStart(s))

startsWith(s, prefix) ==
    Len(s) >= Len(prefix) /\ SubSeq(s, 1, Len(prefix)) = prefix

(***************************************************************************)
(* 32-bit hash arithmetic on JavaScript numbers.                           *)
(*                                                                         *)
(* A 32-bit pattern is <<hi, lo>>, two 16-bit limbs; it is negative as an  *)
(* int32 when hi >= 32768.  The product hash * 1103515245 exceeds 2^53, so *)
(* it is rounded to a double (53 significant bits, ties to even) before    *)
(* 12345 is added and the sum is rounded again; & 0xffffffff then keeps    *)
(* the low 32 bits (ToInt32).  Magnitudes are four 16-bit limbs            *)
(* <<c3, c2, c1, c0>>.                                                     *)
(***************************************************************************)
W16 == 65536

isNeg(u) == u[1] >= 32768

\* two's complement negation of a 32-bit pattern
neg32(u) ==
    LET lo == (W16 - u[2]) % W16
        hi == (65535 - u[1] + (IF u[2] = 0 THEN 1 ELSE 0)) % W16
    IN  <<hi, lo>>

\* hash = ((hash << 5) - hash + charCode) & 0xffffffff
rollStep(u, c) ==
    LET lo == 31 * u[2] + c
        hi == 31 * u[1] + (lo \div W16)
    IN  <<hi % W16, lo % W16>>

RECURSIVE rollingHash(_, _, _)
rollingHash(data, j, u) ==
    IF j > Len(data) THEN u ELSE rollingHash(data, j + 1, rollStep(u, data[j]))

\* |hash| * 1103515245, exactly; 1103515245 = 16838 * 2^16 + 20077
mulMag(a) ==
    LET M1 == 16838
        M0 == 20077
        C  == a[2] * M0
        B  == a[2] * M1 + a[1] * M0 + (C \div W16)
        A  == a[1] * M1 + (B \div W16)
    IN  <<A \div W16, A % W16, B % W16, C % W16>>

\* number of low bits a double cannot hold of a magnitude below 2^62
ulpExp(m) ==
    LET c3 == m[1] IN
    IF c3 < 32 THEN 0
    ELSE IF c3 < 64 THEN 1
    ELSE IF c3 < 128 THEN 2
    ELSE IF c3 < 256 THEN 3
    ELSE IF c3 < 512 THEN 4
    ELSE IF c3 < 1024 THEN 5
    ELSE IF c3 < 2048 THEN 6
    ELSE IF c3 < 4096 THEN 7
    ELSE IF c3 < 8192 THEN 8
    ELSE 9

pow2(e) == CASE e = 0 -> 1 [] e = 1 -> 2 [] e = 2 -> 4 [] e = 3 -> 8 [] e = 4 -> 16
             [] e = 5 -> 32 [] e = 6 -> 64 [] e = 7 -> 128 [] e = 8 -> 256 [] e = 9 -> 512

addLimbs(m, k) ==
    LET s0 == m[4] + k
        s1 == m[3] + (s0 \div W16)
        s2 == m[2] + (s1 \div W16)
        s3 == m[1] + (s2 \div W16)
    IN  <<s3, s2 % W16, s1 % W16, s0 % W16>>

\* m - k for 0 <= k <= m, k < 2^16
subLimbs(m, k) ==
    LET d0 == m[4] - k
        b0 == IF d0 < 0 THEN 1 ELSE 0
        d1 == m[3] - b0
        b1 == IF d1 < 0 THEN 1 ELSE 0
        d2 == m[2] - b1
        b2 == IF d2 < 0 THEN 1 ELSE 0
    IN  <<m[1] - b2, (d2 + W16) % W16, (d1 + W16) % W16, (d0 + W16) % W16>>

\* the double nearest to a magnitude (ties to even)
roundDouble(m) ==
    LET e == ulpExp(m) IN
    IF e = 0 THEN m
    ELSE LET p    == pow2(e)
             r    == m[4] % p
             half == p \div 2
             base == <<m[1], m[2], m[3], m[4] - r>>
             odd  == ((m[4] \div p) % 2) = 1
         IN  IF r > half \/ (r = half /\ odd) THEN addLimbs(base, p) ELSE base

\* hash = (hash * 1103515245 + 12345) & 0xffffffff
lcgStep(u) ==
    LET negv  == isNeg(u)
        a     == IF negv THEN neg32(u) ELSE u
        p     == roundDouble(mulMag(a))
        small == p[1] = 0 /\ p[2] = 0 /\ p[3] = 0 /\ p[4] < 12345
        q     == IF ~negv THEN roundDouble(addLimbs(p, 12345))
                 ELSE IF small THEN <<0, 0, 0, 12345 - p[4]>>
                 ELSE roundDouble(subLimbs(p, 12345))
        qneg  == negv /\ ~small
        low   == <<q[3], q[4]>>
    IN  IF qneg THEN neg32(low) ELSE low

\* F applied ten times; each result is evaluated before the next application
rep10(F(_), u) ==
    LET v1 == F(u) IN IF v1 = <<>> THEN v1 ELSE
    LET v2 == F(v1) IN IF v2 = <<>> THEN v2 ELSE
    LET v3 == F(v2) IN IF v3 = <<>> THEN v3 ELSE
    LET v4 == F(v3) IN IF v4 = <<>> THEN v4 ELSE
    LET v5 == F(v4) IN IF v5 = <<>> THEN v5 ELSE
    LET v6 == F(v5) IN IF v6 = <<>> THEN v6 ELSE
    LET v7 == F(v6) IN IF v7 = <<>> THEN v7 ELSE
    LET v8 == F(v7) IN IF v8 = <<>> THEN v8 ELSE
    LET v9 == F(v8) IN IF v9 = <<>> THEN v9 ELSE
    F(v9)

lcg10(u) == rep10(lcgStep, u)
lcg100(u) == rep10(lcg10, u)
lcg1000(u) == rep10(lcg100, u)
\* for (let k = 0; k < 10000; k++) hash = (hash * 1103515245 + 12345) & 0xffffffff
lcg10000(u) == rep10(lcg1000, u)

\* the 32-bit value both computeProofOfWork and verifyProofOfWork derive from data
hashValue(data) == lcg10000(rollingHash(data, 1, <<0, 0>>))

hexDigit(d) == IF d < 10 THEN 48 + d ELSE 87 + d

\* hexadecimal digits of hi * 2^16 + lo, no leading zeros
RECURSIVE hexMag(_, _)
hexMag(hi, lo) ==
    IF hi = 0 /\ lo < 16 THEN <<hexDigit(lo)>>
    ELSE Append(hexMag(hi \div 16, ((hi % 16) * W16 + lo) \div 16), hexDigit(lo % 16))

\* (hash >>> 0).toString(16)
toHexUnsigned(u) == hexMag(u[1], u[2])

\* hash.toString(16): a negative int32 prints as '-' and its magnitude
toHexSigned(u) ==
    IF isNeg(u) THEN <<45>> \o hexMag(neg32(u)[1], neg32(u)[2]) ELSE hexMag(u[1], u[2])

(***************************************************************************)
(* Payload texts, and the hash of every payload the model hashes.          *)
(***************************************************************************)
TextHi == <<104, 105>>          \* "hi"
TextYo == <<121, 111>>          \* "yo"
TextYoPadded == <<121, 111, 32>> \* "yo "

PayloadTexts == {TextHi, TextYo}

HashInputs == {t \o numberToString(n) : t \in PayloadTexts, n \in 0..(MaxNonce + 1)}

hashTable == [d \in HashInputs |-> hashValue(d)]

hashOf(data) == IF data \in HashInputs THEN hashTable[data] ELSE hashValue(data)

(***************************************************************************)
(* Proof of work.  n is the nonce at which the elapsed-time test first     *)
(* succeeds.                                                               *)
(***************************************************************************)
NoProof == [nonce |-> -1, hash |-> <<>>]

\* main store: the time test precedes nonce++, the hash is printed unsigned
computeProofOfWork(text, n) ==
    [nonce |-> n, hash |-> toHexUnsigned(hashOf(text \o numberToString(n)))]

\* older revision of the store: nonce++ precedes the time test, signed print
computeProofOfWorkPart006(text, n) ==
    [nonce |-> n + 1, hash |-> toHexSigned(hashOf(text \o numberToString(n)))]

\* verify-witness.js
computeProofOfWorkScript(text, n) ==
    [nonce |-> n, hash |-> toHexUnsigned(hashOf(text \o numberToString(n)))]

\* stress test agents
computeProofOfWorkStress(text, n) ==
    [nonce |-> n, hash |-> toHexSigned(hashOf(text \o numberToString(n)))]

\* main store
verifyProofOfWork(text, proof) ==
    LET hash == hashOf(text \o numberToString(proof.nonce))
        calculatedHashSigned == toHexSigned(hash)
        calculatedHashUnsigned == toHexUnsigned(hash)
    IN  calculatedHashSigned = proof.hash \/ calculatedHashUnsigned = proof.hash

\* older revision of the store
verifyProofOfWorkPart006(text, proof) ==
    toHexSigned(hashOf(text \o numberToString(proof.nonce))) = proof.hash

\* verify-witness.js: a falsy nonce or hash is refused before hashing
verifyProofOfWorkScript(text, proof) ==
    IF proof = NoProof \/ proof.nonce = 0 \/ proof.hash = <<>> THEN FALSE
    ELSE toHexUnsigned(hashOf(text \o numberToString(proof.nonce))) = proof.hash

\* browser verification script
verifyProofOfWorkBrowser(text, proof) ==
    IF proof = NoProof \/ proof.nonce = 0 \/ proof.hash = <<>> THEN FALSE
    ELSE toHexSigned(hashOf(text \o numberToString(proof.nonce))) = proof.hash

Producers == {"store", "part006", "script", "stress"}
Verifiers == {"store", "part006", "script", "browser"}

produce(producer, text, n) ==
    CASE producer = "store"   -> computeProofOfWork(text, n)
      [] producer = "part006" -> computeProofOfWorkPart006(text, n)
      [] producer = "script"  -> computeProofOfWorkScript(text, n)
      [] producer = "stress"  -> computeProofOfWorkStress(text, n)

verify(verifier, text, proof) ==
    CASE verifier = "store"   -> verifyProofOfWork(text, proof)
      [] verifier = "part006" -> verifyProofOfWorkPart006(text, proof)
      [] verifier = "script"  -> verifyProofOfWorkScript(text, proof)
      [] verifier = "browser" -> verifyProofOfWorkBrowser(text, proof)

\* the verifier defined in the same file as the producer
\* (the stress test defines none; its records are verified by the store)
ownVerifier(producer) == IF producer = "stress" THEN "store" ELSE producer

(***************************************************************************)
(* Witness records.                                                        *)
(*                                                                         *)
(* A Witness (src/src/lib/types.ts) is a record with the fields below;     *)
(* metadata.position and metadata.lastUpdate are the fields position and   *)
(* lastUpdate (metadata.entropySeed and metadata.contextTag are cosmetic   *)
(* and not modelled).  An absent value is NoProof, NoPosition, 0 (numbers) *)
(* or <<>> (ids and texts, which are strings).                             *)
(***************************************************************************)
NoPosition == <<>>

Witness(id, text, createdAt, expiresAt, witnessCount, lastWitnessed, contextOf, proof, position, lastUpdate) ==
    [id |-> id, text |-> text, createdAt |-> createdAt, expiresAt |-> expiresAt,
     witnessCount |-> witnessCount, lastWitnessed |-> lastWitnessed,
     contextOf |-> contextOf, proof |-> proof, position |-> position,
     lastUpdate |-> lastUpdate]

\* current.find(w => w.id === id): the index of the first match, 0 if none
findIndex(current, id) ==
    IF \E i \in 1..Len(current) : current[i].id = id
    THEN CHOOSE i \in 1..Len(current) :
             /\ current[i].id = id
             /\ \A j \in 1..(i - 1) : current[j].id # id
    ELSE 0

\* current.map(w => w.id === id ? replacement : w)
mapReplace(current, id, replacement) ==
    [i \in 1..Len(current) |-> IF current[i].id = id THEN replacement ELSE current[i]]

Max(a, b) == IF a >= b THEN a ELSE b
Min(a, b) == IF a <= b THEN a ELSE b

\* Array.prototype.sort is stable: the indices of keys in ascending key order
RECURSIVE stableOrder(_, _)
stableOrder(keys, n) ==
    IF n = 0 THEN <<>>
    ELSE LET prev == stableOrder(keys, n - 1)
             at   == Cardinality({i \in 1..Len(prev) : keys[prev[i]] <= keys[n]})
         IN  SubSeq(prev, 1, at) \o <<n>> \o SubSeq(prev, at + 1, Len(prev))

\* seq sorted ascending by keys (keys[i] is the sort key of seq[i])
sortByKeys(seq, keys) ==
    LET order == stableOrder(keys, Len(seq))
    IN  [i \in 1..Len(seq) |-> seq[order[i]]]

(***************************************************************************)
(* Decay and expiration (DEV_MODE is false).                               *)
(***************************************************************************)
decayInterval == 2 * 60 * 1000
baseLifetime == 3 * 60 * 1000
perWitnessBonus == 10 * 1000
entropyBonusCap == 5 * 60 * 1000
decayThreshold == 3 * 60 * 1000
defaultLifetime == 3 * 60 * 1000

\* Date.now() is t
getDefaultExpiration(t) == t + defaultLifetime

calculateCurrentWitnessCount(witness, t) ==
    LET timeSinceLastWitness == t - witness.lastWitnessed
        decaySteps == timeSinceLastWitness \div decayInterval
    IN  Max(1, witness.witnessCount - decaySteps)

\* decayFactor is 0.8 once more than decayThreshold has passed, else 1
calculateExpiration(witnessCount, lastWitnessed, t) ==
    LET entropyBonus == Min(witnessCount * perWitnessBonus, entropyBonusCap)
        timeSinceLastWitness == t - lastWitnessed
        lifetime == baseLifetime + entropyBonus
    IN  lastWitnessed +
        (IF timeSinceLastWitness > decayThreshold THEN (lifetime * 4) \div 5 ELSE lifetime)

\* a filter that lets every witness through: what the sweep must not be
keepWitnesses(witnessArray, t) == witnessArray

\* a filter that also lets through a witness expiring at this very millisecond
notYetPast(witnessArray, t) ==
    SelectSeq(witnessArray, LAMBDA w : w.expiresAt >= t)

getActiveWitnesses(witnessArray, t) ==
    SelectSeq(witnessArray, LAMBDA w : w.expiresAt > t)

(***************************************************************************)
(* Placement.  Coordinates are integers here; a distance below 1.5 between *)
(* integer points is a squared distance of at most 2.                      *)
(***************************************************************************)
clamp(lo, hi, v) == Max(lo, Min(hi, v))

directions == << <<0, -2>>, <<2, -2>>, <<2, 0>>, <<2, 2>>,
                 <<0, 2>>, <<-2, 2>>, <<-2, 0>>, <<-2, -2>> >>

\* a placement that also keeps its distance from the parent: what the test
\* w.id === parentWitness.id rules out
findSpotAwayFromParent(parentWitness, allWitnesses) ==
    IF parentWitness.position = NoPosition THEN <<50, 50>>
    ELSE LET parent == parentWitness.position
             testPos(d) == <<clamp(1, 99, parent[1] + directions[d][1]),
                             clamp(1, 99, parent[2] + directions[d][2])>>
             tooClose(d) ==
                 \E i \in 1..Len(allWitnesses) :
                     LET w == allWitnesses[i] IN
                     /\ w.position # NoPosition
                     /\ LET dx == w.position[1] - testPos(d)[1]
                            dy == w.position[2] - testPos(d)[2]
                        IN  4 * (dx * dx + dy * dy) < 9
             free == {d \in 1..8 : ~tooClose(d)}
         IN  IF free = {} THEN testPos(1)
             ELSE testPos(CHOOSE d \in free : \A e \in free : d <= e)

findSmartNearbySpot(parentWitness, allWitnesses) ==
    IF parentWitness.position = NoPosition THEN <<50, 50>>
    ELSE LET parent == parentWitness.position
             testPos(d) == <<clamp(1, 99, parent[1] + directions[d][1]),
                             clamp(1, 99, parent[2] + directions[d][2])>>
             tooClose(d) ==
                 \E i \in 1..Len(allWitnesses) :
                     LET w == allWitnesses[i] IN
                     /\ w.position # NoPosition
                     /\ w.id # parentWitness.id
                     /\ LET dx == w.position[1] - testPos(d)[1]
                            dy == w.position[2] - testPos(d)[2]
                        IN  4 * (dx * dx + dy * dy) < 9
             free == {d \in 1..8 : ~tooClose(d)}
         IN  IF free = {} THEN testPos(1)
             ELSE testPos(CHOOSE d \in free : \A e \in free : d <= e)

(***************************************************************************)
(* Relay (Gun) data.  A node of the relay graph holds a flat record; a     *)
(* missing, null or otherwise falsy field is 0 or <<>>.  format is         *)
(* "object" for the native format, "string" for the old JSON string format *)
(* and "null" for a deleted node.                                          *)
(***************************************************************************)
GunData(format, id, text, createdAt, expiresAt, witnessCount, lastWitnessed, contextOf, proofNonce, proofHash, positionX, positionY, lastUpdate) ==
    [format |-> format, id |-> id, text |-> text, createdAt |-> createdAt,
     expiresAt |-> expiresAt, witnessCount |-> witnessCount,
     lastWitnessed |-> lastWitnessed, contextOf |-> contextOf,
     proofNonce |-> proofNonce, proofHash |-> proofHash,
     positionX |-> positionX, positionY |-> positionY, lastUpdate |-> lastUpdate]

NullData == GunData("null", <<>>, <<>>, 0, 0, 0, 0, <<>>, 0, <<>>, 0, 0, 0)

\* the gunData object addWitness and reWitness put on the relay
\* (x || null: a zero nonce or coordinate is stored as null)
toGunData(witness, lastUpdate) ==
    GunData("object", witness.id, witness.text, witness.createdAt, witness.expiresAt,
            witness.witnessCount, witness.lastWitnessed, witness.contextOf,
            IF witness.proof = NoProof THEN 0 ELSE witness.proof.nonce,
            IF witness.proof = NoProof THEN <<>> ELSE witness.proof.hash,
            IF witness.position = NoPosition THEN 0 ELSE witness.position[1],
            IF witness.position = NoPosition THEN 0 ELSE witness.position[2],
            lastUpdate)

\* Relay keys are strings (sequences of character codes).
KeyPeers == <<112, 101, 101, 114, 115>>                                 \* "peers"
KeySignaling == <<119, 101, 98, 114, 116, 99, 45, 115, 105, 103, 110, 97, 108, 105, 110, 103>>
                                                                        \* "webrtc-signaling"
PrefixWebrtc == <<119, 101, 98, 114, 116, 99, 45>>                      \* "webrtc-"
PrefixPeer == <<112, 101, 101, 114, 45>>                                \* "peer-"

isDigit(c) == c \in 48..57

\* key.includes('-v') && key.match(/-v\d+$/)
isVersionedKey(key) ==
    \E i \in 1..(Len(key) - 2) :
        /\ key[i] = 45
        /\ key[i + 1] = 118
        /\ \A j \in (i + 2)..Len(key) : isDigit(key[j])

\* a test that knows the signaling key only
isSignalingKey(key) == key = KeySignaling

isSystemKey(key) ==
    \/ key = KeySignaling
    \/ key = KeyPeers
    \/ startsWith(key, PrefixWebrtc)
    \/ startsWith(key, PrefixPeer)

(***************************************************************************)
(* The main store's handlers, as functions of the store content `current`  *)
(* (the array held by the witnesses store) and the time t = Date.now().    *)
(***************************************************************************)
\* scaled: 200 in the source
MAX_WITNESSES_IN_MEMORY == 2

\* a tab handler that adds a new witness without looking for its id: what the test
\* current.find(w => w.id === data.id) rules out
onTabMessageAppending(current, type, data) ==
    CASE type = "NEW_WITNESS" -> Append(current, data)
      [] type = "UPDATE_WITNESS" -> mapReplace(current, data.id, data)
      [] OTHER -> current

\* syncChannel.onmessage, cases NEW_WITNESS and UPDATE_WITNESS
onTabMessage(current, type, data) ==
    CASE type = "NEW_WITNESS" ->
             IF findIndex(current, data.id) = 0 THEN Append(current, data) ELSE current
      [] type = "UPDATE_WITNESS" -> mapReplace(current, data.id, data)
      [] OTHER -> current

\* a WebRTC handler that adds the witness of an update whose id it does not hold
handleWebRTCMessageUpsert(current, type, data) ==
    CASE type = "NEW_WITNESS" ->
             IF findIndex(current, data.id) = 0 THEN Append(current, data) ELSE current
      [] type = "UPDATE_WITNESS" ->
             IF findIndex(current, data.id) = 0 THEN Append(current, data)
             ELSE mapReplace(current, data.id, data)
      [] OTHER -> current

\* handleWebRTCMessage, cases NEW_WITNESS and UPDATE_WITNESS
handleWebRTCMessage(current, type, data) ==
    CASE type = "NEW_WITNESS" ->
             IF findIndex(current, data.id) = 0 THEN Append(current, data) ELSE current
      [] type = "UPDATE_WITNESS" -> mapReplace(current, data.id, data)
      [] OTHER -> current

\* the witness loadWitnessData builds from a relay record, before relocation;
\* the native format keeps a proof or position only if both parts are truthy,
\* the JSON string format takes rawWitness.proof and metadata.position as they are
parseWitness(data) ==
    Witness(data.id, data.text, data.createdAt, data.expiresAt,
            IF data.witnessCount = 0 THEN 1 ELSE data.witnessCount,
            IF data.lastWitnessed = 0 THEN data.createdAt ELSE data.lastWitnessed,
            data.contextOf,
            IF data.format = "object"
            THEN IF data.proofNonce # 0 /\ data.proofHash # <<>>
                 THEN [nonce |-> data.proofNonce, hash |-> data.proofHash] ELSE NoProof
            ELSE IF data.proofNonce = 0 /\ data.proofHash = <<>>
                 THEN NoProof ELSE [nonce |-> data.proofNonce, hash |-> data.proofHash],
            IF data.format = "object"
            THEN IF data.positionX # 0 /\ data.positionY # 0
                 THEN <<data.positionX, data.positionY>> ELSE NoPosition
            ELSE IF data.positionX = 0 /\ data.positionY = 0
                 THEN NoPosition ELSE <<data.positionX, data.positionY>>,
            0)

\* which relay records loadWitnessData carries past its format checks
passesFormatChecks(data, key) ==
    /\ data.format # "null"
    /\ ~isSystemKey(key)
    /\ ~isVersionedKey(key)
    /\ \/ data.format = "string"
       \/ /\ data.format = "object"
          /\ data.id # <<>>
          /\ data.text # <<>> /\ data.createdAt # 0 /\ data.expiresAt # 0

\* "Override network position for connected witnesses with smart nearby placement"
relocate(witness, current) ==
    LET p == IF witness.contextOf = <<>> THEN 0 ELSE findIndex(current, witness.contextOf)
    IN  IF p # 0 /\ current[p].position # NoPosition
        THEN [witness EXCEPT !.position = findSmartNearbySpot(current[p], current)]
        ELSE witness

\* the proof check of loadWitnessData: what it logs for a witness
proofVerdict(witness) ==
    IF witness.proof = NoProof THEN "no proof"
    ELSE IF verifyProofOfWork(trim(witness.text), witness.proof) THEN "valid"
    ELSE "invalid"

\* a decay step that also recomputes the expiration from the decayed count: what
\* "Don't recalculate expiresAt" rules out
withRecalculatedExpiration(witness, t) ==
    LET effectiveCount == calculateCurrentWitnessCount(witness, t)
    IN  [witness EXCEPT !.witnessCount = effectiveCount,
                        !.expiresAt = calculateExpiration(effectiveCount,
                                                          witness.lastWitnessed, t)]

\* "Use effective count for display": the count is overwritten before storing
withEffectiveCount(witness, t) ==
    [witness EXCEPT !.witnessCount = calculateCurrentWitnessCount(witness, t)]

\* the update function of witnesses.update in loadWitnessData
mergeLoaded(current, witness, dataLastUpdate) ==
    LET e == findIndex(current, witness.id) IN
    IF e = 0 THEN
        IF Len(current) >= MAX_WITNESSES_IN_MEMORY
        THEN LET sorted == sortByKeys(current, [i \in 1..Len(current) |-> current[i].expiresAt])
                 \* sorted.slice(-MAX_WITNESSES_IN_MEMORY + 1)
                 from == IF MAX_WITNESSES_IN_MEMORY = 1 THEN 1
                         ELSE Max(1, Len(sorted) - (MAX_WITNESSES_IN_MEMORY - 1) + 1)
             IN  Append(SubSeq(sorted, from, Len(sorted)), witness)
        ELSE Append(current, witness)
    ELSE LET existing == current[e] IN
         IF \/ existing.witnessCount # witness.witnessCount
            \/ existing.expiresAt # witness.expiresAt
            \/ (dataLastUpdate # 0 /\
                  (existing.lastUpdate = 0 \/ dataLastUpdate > existing.lastUpdate))
         THEN mapReplace(current, witness.id,
                  [witness EXCEPT
                      !.position = IF existing.position # NoPosition
                                   THEN existing.position ELSE witness.position,
                      !.lastUpdate = dataLastUpdate])
         ELSE current

\* the verdict of the proof check is only logged: the return that would reject
\* an invalid proof is commented out ("TEMPORARILY allow invalid PoW for debugging")
loadWitnessData(current, data, key, t) ==
    IF ~passesFormatChecks(data, key) THEN current
    ELSE LET witness == withEffectiveCount(relocate(parseWitness(data), current), t)
         IN  IF witness.expiresAt > t
             THEN mergeLoaded(current, witness,
                              IF data.format = "object" THEN data.lastUpdate ELSE 0)
             ELSE current

\* loadedWitnessIds after loadWitnessDataWithTracking has seen key; the set keeps
\* insertion order and is cut to its last MAX_WITNESSES_IN_MEMORY keys once it
\* holds more than twice as many
trackKey(loaded, key) ==
    LET added == Append(loaded, key) IN
    IF Len(added) > MAX_WITNESSES_IN_MEMORY * 2
    THEN SubSeq(added, Len(added) - MAX_WITNESSES_IN_MEMORY + 1, Len(added))
    ELSE added

isTracked(loaded, key) == \E i \in 1..Len(loaded) : loaded[i] = key

loadWitnessDataWithTracking(current, loaded, data, key, t) ==
    IF isTracked(loaded, key) THEN current ELSE loadWitnessData(current, data, key, t)

\* checkMemoryUsage: percentUsed > 80 and no warning shown yet
memoryCleanup(current) ==
    LET sorted == sortByKeys(current, [i \in 1..Len(current) |-> 0 - current[i].expiresAt])
    IN  SubSeq(sorted, 1, Min(Len(sorted), MAX_WITNESSES_IN_MEMORY \div 2))

\* the update function of the cleanupTimer interval
cleanupSweep(current, t) ==
    LET updated == [i \in 1..Len(current) |-> withEffectiveCount(current[i], t)]
        active  == getActiveWitnesses(updated, t)
    IN  IF Len(active) > MAX_WITNESSES_IN_MEMORY
        THEN LET recency == [i \in 1..Len(active) |->
                               0 - Max(active[i].lastWitnessed, active[i].createdAt)]
             IN  SubSeq(sortByKeys(active, recency), 1, MAX_WITNESSES_IN_MEMORY)
        ELSE active

\* a reWitness that would re-create a witness the store no longer holds: the
\* behaviour the update function of reWitness must not have
reWitnessUpsert(current, witnessId, t) ==
    IF \E i \in 1..Len(current) : current[i].id = witnessId
    THEN [i \in 1..Len(current) |->
             IF current[i].id = witnessId
             THEN [current[i] EXCEPT
                      !.witnessCount = current[i].witnessCount + 1,
                      !.lastWitnessed = t,
                      !.expiresAt = calculateExpiration(current[i].witnessCount + 1, t, t)]
             ELSE current[i]]
    ELSE Append(current, Witness(witnessId, <<>>, t, calculateExpiration(1, t, t), 1, t,
                                 <<>>, NoProof, NoPosition, 0))

\* a reWitness that renews the witness without counting the validation
reWitnessUncounted(current, witnessId, t) ==
    [i \in 1..Len(current) |->
        IF current[i].id = witnessId
        THEN [current[i] EXCEPT
                 !.lastWitnessed = t,
                 !.expiresAt = calculateExpiration(current[i].witnessCount + 1, t, t)]
        ELSE current[i]]

\* the update function of witnesses.update in reWitness
reWitnessUpdate(current, witnessId, t) ==
    [i \in 1..Len(current) |->
        IF current[i].id = witnessId
        THEN [current[i] EXCEPT
                 !.witnessCount = current[i].witnessCount + 1,
                 !.lastWitnessed = t,
                 !.expiresAt = calculateExpiration(current[i].witnessCount + 1, t, t)]
        ELSE current[i]]

\* generatePosition; random is the outcome of the Math.random() branches
generatePosition(contextWitness, existingWitnesses, random) ==
    IF contextWitness.id # <<>> /\ contextWitness.position # NoPosition
    THEN findSmartNearbySpot(contextWitness, existingWitnesses)
    ELSE random

(***************************************************************************)
(* The emergency store (src/src/lib/witnessStore-emergency.ts), as         *)
(* functions of its store content.  Its witnesses are kept without proof   *)
(* and metadata: both are random or constant values the store never reads. *)
(***************************************************************************)
\* EMERGENCY_CONFIG.maxWitnesses, scaled: 50 in the source
EmergencyMaxWitnesses == 2
\* EMERGENCY_CONFIG.maxWitnessCount, scaled: 10 in the source
EmergencyMaxWitnessCount == 2
\* EMERGENCY_CONFIG.expirationTime
EmergencyExpirationTime == 2 * 60 * 1000

EmergencyWitness(id, text, createdAt, expiresAt, witnessCount, lastWitnessed, contextOf) ==
    [id |-> id, text |-> text, createdAt |-> createdAt, expiresAt |-> expiresAt,
     witnessCount |-> witnessCount, lastWitnessed |-> lastWitnessed, contextOf |-> contextOf]

\* the object addWitness and reWitness put on the relay: id, text, createdAt, expiresAt,
\* witnessCount and contextOf only
emergencyGunData(witness) ==
    GunData("object", witness.id, witness.text, witness.createdAt, witness.expiresAt,
            witness.witnessCount, 0, witness.contextOf, 0, <<>>, 0, 0, 0)

\* currentWitnesses.sort((a, b) => a.createdAt - b.createdAt)
sortByCreatedAt(current) ==
    sortByKeys(current, [i \in 1..Len(current) |-> current[i].createdAt])

\* current.filter(w => w.id !== id)
withoutId(current, id) == SelectSeq(current, LAMBDA w : w.id # id)

\* addWitness up to its await: at the limit the oldest witness is removed; the sort
\* is in place, on the array the store holds
emergencyCheckLimit(current) ==
    IF Len(current) >= EmergencyMaxWitnesses /\ Len(current) > 0
    THEN withoutId(sortByCreatedAt(current), sortByCreatedAt(current)[1].id)
    ELSE current

\* the ids addWitness deletes on the relay before its await
emergencyCheckLimitDeletes(current) ==
    IF Len(current) >= EmergencyMaxWitnesses /\ Len(current) > 0
    THEN {sortByCreatedAt(current)[1].id} ELSE {}

\* the update function of witnesses.update in reWitness
\* a reWitness that counts without a cap
emergencyReWitnessUncapped(current, witnessId, t) ==
    [i \in 1..Len(current) |->
        IF current[i].id = witnessId
        THEN [current[i] EXCEPT
                 !.witnessCount = current[i].witnessCount + 1,
                 !.lastWitnessed = t,
                 !.expiresAt = t + EmergencyExpirationTime]
        ELSE current[i]]

emergencyReWitnessUpdate(current, witnessId, t) ==
    [i \in 1..Len(current) |->
        IF current[i].id = witnessId
        THEN [current[i] EXCEPT
                 !.witnessCount = Min(current[i].witnessCount + 1, EmergencyMaxWitnessCount),
                 !.lastWitnessed = t,
                 !.expiresAt = t + EmergencyExpirationTime]
        ELSE current[i]]

\* emergencyCleanup: the update function of witnesses.update
emergencyCleanup(current, t) ==
    LET active == getActiveWitnesses(current, t)
        sorted == sortByCreatedAt(active)
    IN  IF Len(active) > EmergencyMaxWitnesses
        THEN SubSeq(sorted, Len(sorted) - EmergencyMaxWitnesses + 1, Len(sorted))
        ELSE active

\* the ids emergencyCleanup deletes on the relay: the expired and the excess ones
emergencyCleanupDeletes(current, t) ==
    LET active == getActiveWitnesses(current, t)
        sorted == sortByCreatedAt(active)
    IN  {current[i].id : i \in {j \in 1..Len(current) : current[j].expiresAt <= t}}
        \cup (IF Len(active) > EmergencyMaxWitnesses
              THEN {sorted[i].id : i \in 1..(Len(active) - EmergencyMaxWitnesses)}
              ELSE {})

\* the relay listener of initializeStore: which records it skips as invalid
emergencyInvalid(data) == data.format # "object" \/ data.id = <<>> \/ data.text = <<>>

\* a relay listener that takes the count of a record whose id it already holds
emergencyLoadLatest(current, data, t) ==
    IF emergencyInvalid(data) \/ (data.expiresAt # 0 /\ data.expiresAt <= t) THEN current
    ELSE IF findIndex(current, data.id) # 0
         THEN [i \in 1..Len(current) |->
                  IF current[i].id = data.id
                  THEN [current[i] EXCEPT
                           !.witnessCount = Min(IF data.witnessCount = 0 THEN 1
                                                ELSE data.witnessCount,
                                                EmergencyMaxWitnessCount)]
                  ELSE current[i]]
    ELSE IF Len(current) >= EmergencyMaxWitnesses THEN current
    ELSE Append(current,
             EmergencyWitness(data.id, data.text,
                 IF data.createdAt = 0 THEN t ELSE data.createdAt,
                 IF data.expiresAt = 0 THEN t + EmergencyExpirationTime ELSE data.expiresAt,
                 Min(IF data.witnessCount = 0 THEN 1 ELSE data.witnessCount,
                     EmergencyMaxWitnessCount),
                 IF data.lastWitnessed # 0 THEN data.lastWitnessed
                 ELSE IF data.createdAt # 0 THEN data.createdAt ELSE t,
                 data.contextOf))

\* the relay listener of initializeStore: the update function of witnesses.update
emergencyLoad(current, data, t) ==
    IF emergencyInvalid(data) \/ (data.expiresAt # 0 /\ data.expiresAt <= t) THEN current
    ELSE IF findIndex(current, data.id) # 0 THEN current
    ELSE IF Len(current) >= EmergencyMaxWitnesses THEN current
    ELSE Append(current,
             EmergencyWitness(data.id, data.text,
                 IF data.createdAt = 0 THEN t ELSE data.createdAt,
                 IF data.expiresAt = 0 THEN t + EmergencyExpirationTime ELSE data.expiresAt,
                 Min(IF data.witnessCount = 0 THEN 1 ELSE data.witnessCount,
                     EmergencyMaxWitnessCount),
                 IF data.lastWitnessed # 0 THEN data.lastWitnessed
                 ELSE IF data.createdAt # 0 THEN data.createdAt ELSE t,
                 data.contextOf))

(***************************************************************************)
(* The P2P store (src/src/lib/witnessStore-p2p.ts).  witnessMemory is a    *)
(* Map: a sequence of witnesses in insertion order, one entry per id.      *)
(***************************************************************************)
\* P2P_CONFIG.maxConnections, scaled: 8 in the source
P2PMaxConnections == 2
\* P2P_CONFIG.maxWitnesses, scaled: 200 in the source
P2PMaxWitnesses == 2
\* P2P_CONFIG.expirationTime
P2PExpirationTime == 10 * 60 * 1000

P2PWitness(id, text, createdAt, expiresAt, witnessCount, contextOf) ==
    [id |-> id, text |-> text, createdAt |-> createdAt, expiresAt |-> expiresAt,
     witnessCount |-> witnessCount, contextOf |-> contextOf,
     position |-> <<50, 50>>]     \* metadata.position: the centre stands for any spot

\* witnessMemory.set(witness.id, witness)
memorySet(memory, witness) ==
    LET e == findIndex(memory, witness.id)
    IN  IF e = 0 THEN Append(memory, witness) ELSE [memory EXCEPT ![e] = witness]

addPeerWitness(memory, witness) ==
    IF findIndex(memory, witness.id) = 0 THEN memorySet(memory, witness) ELSE memory

\* an update that stores the peer's witness in place of the one held
updatePeerWitnessWhole(memory, witness) ==
    LET e == findIndex(memory, witness.id)
    IN  IF e # 0 /\ witness.witnessCount > memory[e].witnessCount
        THEN memorySet(memory, witness)
        ELSE memory

updatePeerWitness(memory, witness) ==
    LET e == findIndex(memory, witness.id)
    IN  IF e # 0 /\ witness.witnessCount > memory[e].witnessCount
        THEN memorySet(memory, [memory[e] EXCEPT !.witnessCount = witness.witnessCount])
        ELSE memory

\* peerWitnesses.forEach: a new id is added, a known id takes a greater count
RECURSIVE mergePeerWitnesses(_, _)
mergePeerWitnesses(memory, peerWitnesses) ==
    IF peerWitnesses = <<>> THEN memory
    ELSE LET witness == Head(peerWitnesses)
         IN  mergePeerWitnesses(
                 IF findIndex(memory, witness.id) = 0 THEN memorySet(memory, witness)
                 ELSE updatePeerWitness(memory, witness),
                 Tail(peerWitnesses))

\* a message on a data channel; witness-new and witness-update carry one witness
PeerMessage(to, type, peerWitnesses) ==
    [to |-> to, type |-> type, witnesses |-> peerWitnesses]

handlePeerMessage(memory, message) ==
    CASE message.type = "witness-sync" -> mergePeerWitnesses(memory, message.witnesses)
      [] message.type = "witness-new" -> addPeerWitness(memory, message.witnesses[1])
      [] message.type = "witness-update" -> updatePeerWitness(memory, message.witnesses[1])
      [] OTHER -> memory

\* sendWitnessesToPeer: Array.from(witnessMemory.values()) goes out as it is
sendWitnessesToPeer(memory, peerId) == PeerMessage(peerId, "witness-sync", memory)

\* broadcastWitness: one message per open data channel
broadcastWitness(openChannels, witness, type) ==
    {PeerMessage(peerId, type, <<witness>>) : peerId \in openChannels}

\* the witness reWitness stores for an id witnessMemory holds
p2pReWitnessed(witness, t) ==
    [witness EXCEPT !.witnessCount = witness.witnessCount + 1,
                    !.expiresAt = Max(witness.expiresAt, t + P2PExpirationTime)]

\* a reWitness that stores a witness under an id witnessMemory does not hold: what
\* "if (!witness) return false" rules out
p2pReWitnessUpsert(memory, witnessId, t) ==
    LET e == findIndex(memory, witnessId)
    IN  memorySet(memory,
            IF e = 0 THEN P2PWitness(witnessId, <<>>, t, t + P2PExpirationTime, 1, <<>>)
            ELSE p2pReWitnessed(memory[e], t))

\* reWitness: witnessMemory after the call
p2pReWitness(memory, witnessId, t) ==
    LET e == findIndex(memory, witnessId)
    IN  IF e = 0 THEN memory ELSE memorySet(memory, p2pReWitnessed(memory[e], t))

\* reWitness: the value the call resolves to
p2pReWitnessResult(memory, witnessId) == findIndex(memory, witnessId) # 0

\* cleanupExpiredWitnesses: witnessMemory after the interval's run
cleanupExpiredWitnesses(memory, t) ==
    LET kept == SelectSeq(memory, LAMBDA w : ~(w.expiresAt <= t))
    IN  IF Len(kept) > P2PMaxWitnesses
        THEN SubSeq(sortByKeys(kept, [i \in 1..Len(kept) |-> 0 - kept[i].createdAt]),
                    1, P2PMaxWitnesses)
        ELSE kept

\* updateWitnessStore: what witnesses.set is called with
updateWitnessStore(memory, t) ==
    LET active == SelectSeq(memory, LAMBDA w : w.expiresAt > t)
    IN  sortByKeys(active, [i \in 1..Len(active) |-> 0 - active[i].createdAt])

(***************************************************************************)
(* The environment of one client: the clock, the ids, and the records that *)
(* other clients have published.                                           *)
(***************************************************************************)
\* the clock advances in steps of TickMs from StartTime, MaxTicks times
StartTime == decayInterval \div 2
TickMs == decayInterval \div 2
MaxTicks == 3
\* addWitness is called at most MaxLocalWitnesses times
MaxLocalWitnesses == 1
\* no handler is run that would store a count above MaxWitnessCount
MaxWitnessCount == 2
\* at most MaxPendingReWitness reWitness calls await their proof at a time
MaxPendingReWitness == 2

Id_w1 == <<119, 49>>     \* "w1", the id generateId returns
Id_r1 == <<114, 49>>     \* "r1", created by another client
Id_r2 == <<114, 50>>     \* "r2", created by another client
Key_r1v2 == <<114, 49, 45, 118, 50>>     \* "r1-v2"
LocalIds == <<Id_w1>>
AllIds == {Id_w1, Id_r1, Id_r2}

\* `rewitness:${witnessId}:${Date.now()}`
validationData(witnessId, t) ==
    <<114, 101, 119, 105, 116, 110, 101, 115, 115, 58>> \o witnessId \o <<58>>
        \o numberToString(t)

\* the ids reWitness is called with where its proof is followed (SpecRe)
ReWitnessIds == {Id_r1, Id_r2}

ValidationInputs ==
    {validationData(id, StartTime) \o numberToString(n) : id \in ReWitnessIds, n \in 0..MaxNonce}

validationHashTable == [d \in ValidationInputs |-> hashValue(d)]

\* computeProofOfWork(validationData), the elapsed-time test first succeeding at nonce n
computeValidationProof(witnessId, t, n) ==
    LET data == validationData(witnessId, t) \o numberToString(n)
    IN  [nonce |-> n,
         hash |-> toHexUnsigned(IF data \in ValidationInputs THEN validationHashTable[data]
                                ELSE hashValue(data))]

\* where Math.random() can put a witness that has no context
RandomPositions == {<<50, 50>>, <<52, 50>>}

\* performance.memory: percentUsed as seen by checkMemoryUsage
MemorySamples == {50, 70, 90}

NoWitness == Witness(<<>>, <<>>, 0, 0, 0, 0, <<>>, NoProof, NoPosition, 0)

\* r1 as its author published it at time 10
RecordCreated ==
    GunData("object", Id_r1, TextHi, 10, 10 + defaultLifetime, 1, 10, <<>>,
            1, computeProofOfWork(TextHi, 1).hash, 50, 48, 0)

\* r1 re-witnessed by client A at time 100
RecordA ==
    [RecordCreated EXCEPT !.witnessCount = 2, !.lastWitnessed = 100,
                          !.expiresAt = calculateExpiration(2, 100, 100),
                          !.lastUpdate = 100]

\* r1 re-witnessed by client B at time 90
RecordB ==
    [RecordCreated EXCEPT !.witnessCount = 2, !.lastWitnessed = 90,
                          !.expiresAt = calculateExpiration(2, 90, 90),
                          !.lastUpdate = 90]

\* r1 while the relay is still assembling it: the text has not arrived
RecordIncomplete == [RecordA EXCEPT !.text = <<>>]

\* r2 carrying a proof that was computed for another text
RecordBadProof ==
    GunData("object", Id_r2, TextYo, 20, 20 + defaultLifetime, 1, 20, <<>>,
            1, computeProofOfWork(TextHi, 1).hash, 48, 50, 0)

\* r2 published with the 30 second test expiration: expired before StartTime
RecordExpired ==
    GunData("object", Id_r2, TextYo, 20, 20 + 30000, 1, 20, <<>>,
            1, computeProofOfWork(TextYo, 1).hash, 48, 50, 0)

\* r2 published by a client whose clock runs ahead of this client's
RecordAhead ==
    GunData("object", Id_r2, TextYo, StartTime + TickMs + 10000,
            StartTime + TickMs + 10000 + defaultLifetime, 1,
            StartTime + TickMs + 10000, <<>>,
            1, computeProofOfWork(TextYo, 1).hash, 48, 50, 0)

\* r2 published at time 50000 with the 30 second test expiration: active at StartTime
RecordShort ==
    [RecordExpired EXCEPT !.createdAt = 50000, !.lastWitnessed = 50000,
                          !.expiresAt = 50000 + 30000]

Id_r3 == <<114, 51>>     \* "r3", created by another client

\* r3 as its author published it at time 30
RecordThird ==
    [RecordCreated EXCEPT !.id = Id_r3, !.createdAt = 30, !.lastWitnessed = 30,
                          !.expiresAt = 30 + defaultLifetime]

\* r2 published by a client whose clock runs four minutes ahead of this client's
RecordFarAhead ==
    [RecordAhead EXCEPT !.createdAt = StartTime + 4 * TickMs,
                        !.lastWitnessed = StartTime + 4 * TickMs,
                        !.expiresAt = StartTime + 4 * TickMs + defaultLifetime]

Key_webrtcX == <<119, 101, 98, 114, 116, 99, 45, 120>>     \* "webrtc-x"
Key_peerX == <<112, 101, 101, 114, 45, 120>>               \* "peer-x"

\* keys of the relay's graph that hold bookkeeping data, not witness records
BookkeepingKeys == {KeySignaling, KeyPeers, Key_webrtcX, Key_peerX, Key_r1v2}

\* what the relay listener is called with under those keys, and a record of r1
KeyInputs == {<<key, RecordA>> : key \in BookkeepingKeys} \cup {<<Id_r1, RecordB>>}

\* three records that expire one millisecond before, at, and one millisecond after
\* the first tick
RecordEdgeBefore == [RecordCreated EXCEPT !.expiresAt = StartTime + TickMs - 1]
RecordEdgeAt == [RecordShort EXCEPT !.expiresAt = StartTime + TickMs]
RecordEdgeAfter == [RecordThird EXCEPT !.expiresAt = StartTime + TickMs + 1]
EdgeRecords == {RecordEdgeBefore, RecordEdgeAt, RecordEdgeAfter}

\* a record under the id r1 that carries another text and another creation time
RecordRetold == [RecordA EXCEPT !.text = TextYo, !.createdAt = 40]

\* r1 after two re-validations, the last one at time 100
RecordThrice ==
    [RecordCreated EXCEPT !.witnessCount = 3, !.lastWitnessed = 100,
                          !.expiresAt = calculateExpiration(3, 100, 100),
                          !.lastUpdate = 100]

\* r1 as a client holds it that has placed it elsewhere on the field
RecordMoved == [RecordA EXCEPT !.positionX = 60, !.positionY = 40]

\* the records that fill the store beyond MAX_WITNESSES_IN_MEMORY (SpecCap)
CapRecords == {RecordA, RecordShort, RecordThird}

\* what the relay listener can be called with by the relay: <<key, data>>
GunInputs ==
    { <<Id_r1, RecordA>>, <<Id_r1, RecordB>>, <<Id_r1, RecordIncomplete>>,
      <<Id_r2, RecordBadProof>>, <<Id_r2, [RecordBadProof EXCEPT !.format = "string"]>>,
      <<Id_r2, RecordExpired>>, <<Id_r2, NullData>>,
      <<KeyPeers, RecordA>>, <<KeySignaling, RecordA>>, <<Key_r1v2, RecordA>> }

\* what another tab or a WebRTC peer can send: the Witness objects of its store
PeerMessages ==
    { [type |-> "NEW_WITNESS", data |-> parseWitness(RecordCreated)],
      [type |-> "UPDATE_WITNESS", data |-> parseWitness(RecordA)],
      [type |-> "UPDATE_WITNESS", data |-> parseWitness(RecordB)],
      [type |-> "NEW_WITNESS", data |-> parseWitness(RecordBadProof)],
      [type |-> "NEW_WITNESS", data |-> parseWitness(RecordExpired)],
      [type |-> "TAB_PONG", data |-> NoWitness] }

\* the part of them that reaches a client while it creates and re-witnesses
FieldRecords == { <<Id_r1, RecordA>> }

FieldMessages ==
    { [type |-> "NEW_WITNESS", data |-> parseWitness(RecordCreated)],
      [type |-> "UPDATE_WITNESS", data |-> parseWitness(RecordA)] }

\* the records two clients are compared on: valid and unexpired at StartTime
ConvRecords == {RecordCreated, RecordA, RecordB, RecordAhead}

\* the emergency store: addWitness is called at most MaxEmergencyAdds times
MaxEmergencyAdds == 2
Id_e1 == <<101, 49>>     \* "e1"
Id_e2 == <<101, 50>>     \* "e2"
Id_e3 == <<101, 51>>     \* "e3"
EmergencyIds == <<Id_e1, Id_e2, Id_e3>>

\* what the emergency store's relay listener can be called with
\* r1 as a store without a count cap published it
RecordOvercounted == [RecordCreated EXCEPT !.witnessCount = EmergencyMaxWitnessCount + 2]

EmergencyInputs ==
    { <<Id_r1, RecordCreated>>, <<Id_r1, RecordOvercounted>>, <<Id_r2, RecordExpired>>, <<Id_r2, RecordAhead>>,
      <<Id_r1, NullData>>, <<Id_r1, RecordIncomplete>> }

(***************************************************************************)
(* State.                                                                  *)
(***************************************************************************)
VARIABLES
    now,                \* Date.now()
    witnesses,          \* the array held by the witnesses store
    loadedWitnessIds,   \* the keys loadWitnessDataWithTracking has seen, in order
    memoryWarningShown,
    pendingAdd,         \* the addWitness call awaiting its proof of work
    pendingReWitness,   \* per id, the number of reWitness calls awaiting their proof
    created,            \* the number of ids generateId has returned
    gunPuts,            \* own relay writes the relay listener has not been called with
    sent,               \* the messages the last step sent, on any transport
    lastDelivered,      \* history: the last message a handler of SpecSync was called with
    pow,                \* the proof-of-work gate: the last proof issued and its verification
    clients,            \* two more clients that receive the same records (SpecConv)
    emergency,          \* the emergency store (witnessStore-emergency.ts)
    p2p,                \* the P2P store and its P2PManager (witnessStore-p2p.ts)
    page                \* the main page (routes/+page.svelte) over the emergency store

vars == <<now, witnesses, loadedWitnessIds, memoryWarningShown, pendingAdd,
          pendingReWitness, created, gunPuts, sent, lastDelivered, pow, clients,
          emergency, p2p, page>>

\* what addWitness reads of a witness of the store before its await: generatePosition
\* uses the id and metadata.position of contextWitness and of existingWitnesses
placed(witness) == [id |-> witness.id, position |-> witness.position]

NoCall == [active |-> FALSE, text |-> <<>>, contextOf |-> <<>>,
           contextWitness |-> placed(NoWitness), existingWitnesses |-> <<>>]

Message(transport, type, key, data) ==
    [transport |-> transport, type |-> type, key |-> key, data |-> data]

\* a delivery, whatever the transport: the listener's or handler's arguments
Delivery(type, key, data) == [type |-> type, key |-> key, data |-> data]

NoDelivery == Delivery("none", <<>>, NoWitness)

PowIdle == [phase |-> "idle"]

ClientNames == {"A", "B"}

ClientInit == [witnesses |-> <<>>, loadedWitnessIds |-> <<>>, applied |-> {}]

\* the emergency store: its witnesses, the addWitness calls awaiting their proof of
\* work (in call order), the number of ids generated, what the last step put on the relay
EmergencyInit == [witnesses |-> <<>>, pendingAdd |-> <<>>, created |-> 0, sent |-> {}]

\* the P2P store: the keys of the connections and dataChannels maps of P2PManager,
\* the peers whose connection has the onconnectionstatechange handler of
\* attemptConnection, the peers a signaling listener is registered for, the peers
\* whose data channel is open, witnessMemory in insertion order, the witnesses
\* store, the number of local witnesses, what the last step sent on data channels
P2PInit == [connections |-> {}, monitored |-> {}, listeners |-> {}, dataChannels |-> {},
            open |-> {}, witnessMemory |-> <<>>, witnesses |-> <<>>,
            created |-> 0, sent |-> {}]

\* the main page as mounted: nothing selected, no timer, nothing awaited
PageInit ==
    [contextWitnessId |-> <<>>, validationInterval |-> 0, isValidating |-> FALSE,
     isSubmitting |-> FALSE, intervals |-> {}, timeouts |-> {}, calls |-> {},
     created |-> 0, destroyed |-> FALSE]

Init ==
    /\ now = StartTime
    /\ witnesses = <<>>
    /\ loadedWitnessIds = <<>>
    /\ memoryWarningShown = FALSE
    /\ pendingAdd = NoCall
    /\ pendingReWitness = [id \in AllIds |-> 0]
    /\ created = 0
    /\ gunPuts = {}
    /\ sent = {}
    /\ lastDelivered = NoDelivery
    /\ pow = PowIdle
    /\ clients = [c \in ClientNames |-> ClientInit]
    /\ emergency = EmergencyInit
    /\ p2p = P2PInit
    /\ page = PageInit

withinCountBound(current) ==
    \A i \in 1..Len(current) : current[i].witnessCount <= MaxWitnessCount

(***************************************************************************)
(* Steps of the main store.                                                *)
(***************************************************************************)
\* TickMs of time pass.  A proof of work takes about a second and the relay calls
\* the listener with a local write at once, so no call and no own write is pending
\* across a tick
Tick ==
    /\ now < StartTime + MaxTicks * TickMs
    /\ ~pendingAdd.active
    /\ \A id \in AllIds : pendingReWitness[id] = 0
    /\ gunPuts = {}
    /\ now' = now + TickMs
    /\ sent' = {}
    /\ UNCHANGED <<witnesses, loadedWitnessIds, memoryWarningShown, pendingAdd,
                   pendingReWitness, created, gunPuts, lastDelivered, pow, clients, emergency, p2p, page>>

\* addWitness up to its await: the store is read for positioning
AddWitnessStart(text, contextOf) ==
    /\ ~pendingAdd.active
    /\ created < MaxLocalWitnesses
    /\ LET p == IF contextOf = <<>> THEN 0 ELSE findIndex(witnesses, contextOf)
       IN  pendingAdd' = [active |-> TRUE, text |-> text, contextOf |-> contextOf,
                          contextWitness |-> placed(IF p = 0 THEN NoWitness ELSE witnesses[p]),
                          existingWitnesses |-> [i \in 1..Len(witnesses) |-> placed(witnesses[i])]]
    /\ sent' = {}
    /\ UNCHANGED <<now, witnesses, loadedWitnessIds, memoryWarningShown,
                   pendingReWitness, created, gunPuts, lastDelivered, pow, clients, emergency, p2p, page>>

\* addWitness from the completion of its proof of work (found at nonce n)
AddWitnessDone(n, random) ==
    /\ pendingAdd.active
    /\ LET text    == trim(pendingAdd.text)
           witness == Witness(LocalIds[created + 1], text, now, getDefaultExpiration(now),
                              1, now, pendingAdd.contextOf,
                              computeProofOfWork(text, n),
                              generatePosition(pendingAdd.contextWitness,
                                               pendingAdd.existingWitnesses, random),
                              0)
           gunData == toGunData(witness, 0)
       IN  /\ witnesses' = Append(witnesses, witness)
           /\ gunPuts' = {d \in gunPuts : d.id # witness.id} \cup {gunData}
           /\ sent' = {Message("relay", "put", witness.id, gunData),
                       Message("tab", "NEW_WITNESS", witness.id, witness),
                       Message("webrtc", "NEW_WITNESS", witness.id, witness)}
    /\ created' = created + 1
    /\ pendingAdd' = NoCall
    /\ UNCHANGED <<now, loadedWitnessIds, memoryWarningShown, pendingReWitness,
                   lastDelivered, pow, clients, emergency, p2p, page>>

\* reWitness up to its await; it returns at once if the id is not in the store
ReWitnessBegin(witnessId) ==
    /\ LET e == findIndex(witnesses, witnessId) IN
       IF e = 0 THEN UNCHANGED pendingReWitness
       ELSE pendingReWitness' = [pendingReWitness EXCEPT ![witnessId] = @ + 1]
    /\ sent' = {}
    /\ UNCHANGED <<now, witnesses, loadedWitnessIds, memoryWarningShown, pendingAdd,
                   created, gunPuts, lastDelivered, pow, clients, emergency, p2p, page>>

\* the same, called while the bounds on pending calls and on the count leave room
ReWitnessStart(witnessId) ==
    /\ LET e == findIndex(witnesses, witnessId) IN
       e # 0 => /\ pendingReWitness[Id_w1] + pendingReWitness[Id_r1] + pendingReWitness[Id_r2]
                       < MaxPendingReWitness
                /\ witnesses[e].witnessCount + pendingReWitness[witnessId] < MaxWitnessCount
    /\ ReWitnessBegin(witnessId)

\* reWitness from the completion of its proof of work
ReWitnessComplete(witnessId) ==
    /\ pendingReWitness[witnessId] > 0
    /\ pendingReWitness' = [pendingReWitness EXCEPT ![witnessId] = @ - 1]
    /\ witnesses' = reWitnessUpdate(witnesses, witnessId, now)
    /\ LET e == findIndex(witnesses', witnessId) IN
       IF e = 0
       THEN /\ sent' = {}
            /\ UNCHANGED gunPuts
       ELSE LET updatedWitness == witnesses'[e]
                gunData == toGunData(updatedWitness, now)
            IN  /\ gunPuts' = {d \in gunPuts : d.id # witnessId} \cup {gunData}
                /\ sent' = {Message("tab", "UPDATE_WITNESS", witnessId, updatedWitness),
                            Message("webrtc", "UPDATE_WITNESS", witnessId, updatedWitness),
                            Message("relay", "put", witnessId, gunData)}
    /\ UNCHANGED <<now, loadedWitnessIds, memoryWarningShown, pendingAdd, created,
                   lastDelivered, clients, emergency, p2p, page>>

\* the same, while the count it stores stays within MaxWitnessCount
ReWitnessDone(witnessId) ==
    /\ ReWitnessComplete(witnessId)
    /\ withinCountBound(witnesses')

\* fieldNode.map().on(loadWitnessDataWithTracking), called with a remote record
GunOn(key, data) ==
    /\ witnesses' = loadWitnessDataWithTracking(witnesses, loadedWitnessIds, data, key, now)
    /\ withinCountBound(witnesses')
    /\ loadedWitnessIds' = IF isTracked(loadedWitnessIds, key) THEN loadedWitnessIds
                           ELSE trackKey(loadedWitnessIds, key)
    /\ sent' = {}
    /\ UNCHANGED <<now, memoryWarningShown, pendingAdd, pendingReWitness, created,
                   gunPuts, pow, clients, emergency, p2p, page>>

\* the same listener, called with what this client itself wrote to the relay
GunEcho ==
    \E data \in gunPuts :
        /\ witnesses' = loadWitnessDataWithTracking(witnesses, loadedWitnessIds,
                                                    data, data.id, now)
        /\ withinCountBound(witnesses')
        /\ loadedWitnessIds' = IF isTracked(loadedWitnessIds, data.id) THEN loadedWitnessIds
                               ELSE trackKey(loadedWitnessIds, data.id)
        /\ gunPuts' = gunPuts \ {data}
        /\ sent' = {}
        /\ UNCHANGED <<now, memoryWarningShown, pendingAdd, pendingReWitness, created,
                       lastDelivered, pow, clients, emergency, p2p, page>>

\* syncChannel.onmessage
TabMessage(type, data) ==
    /\ witnesses' = onTabMessage(witnesses, type, data)
    /\ sent' = {}
    /\ UNCHANGED <<now, loadedWitnessIds, memoryWarningShown, pendingAdd,
                   pendingReWitness, created, gunPuts, pow, clients, emergency, p2p, page>>

\* handleWebRTCMessage
WebRTCMessage(type, data) ==
    /\ witnesses' = handleWebRTCMessage(witnesses, type, data)
    /\ sent' = {}
    /\ UNCHANGED <<now, loadedWitnessIds, memoryWarningShown, pendingAdd,
                   pendingReWitness, created, gunPuts, pow, clients, emergency, p2p, page>>

\* the cleanupTimer interval: checkMemoryUsage, then the sweep
CleanupTimer(percentUsed) ==
    /\ LET pressure == percentUsed > 80 /\ ~memoryWarningShown
           reduced  == IF pressure THEN memoryCleanup(witnesses) ELSE witnesses
       IN  /\ memoryWarningShown' = IF pressure THEN TRUE
                                    ELSE IF percentUsed < 60 THEN FALSE
                                    ELSE memoryWarningShown
           /\ witnesses' = cleanupSweep(reduced, now)
    /\ withinCountBound(witnesses')
    /\ sent' = {}
    /\ UNCHANGED <<now, loadedWitnessIds, pendingAdd, pendingReWitness, created,
                   gunPuts, lastDelivered, pow, clients, emergency, p2p, page>>

(***************************************************************************)
(* Spec: one client that creates and re-witnesses while records arrive.    *)
(***************************************************************************)
Next ==
    \/ Tick
    \/ \E contextOf \in {<<>>} \cup {witnesses[i].id : i \in 1..Len(witnesses)} :
           AddWitnessStart(TextYoPadded, contextOf)
    \/ \E n \in 0..MaxNonce, random \in RandomPositions : AddWitnessDone(n, random)
    \/ \E witnessId \in AllIds : ReWitnessStart(witnessId)
    \/ \E witnessId \in AllIds : ReWitnessDone(witnessId) /\ UNCHANGED pow
    \/ \E input \in FieldRecords : GunOn(input[1], input[2]) /\ UNCHANGED lastDelivered
    \/ GunEcho
    \/ \E m \in FieldMessages : TabMessage(m.type, m.data) /\ UNCHANGED lastDelivered
    \/ \E m \in FieldMessages : WebRTCMessage(m.type, m.data) /\ UNCHANGED lastDelivered
    \/ \E percentUsed \in MemorySamples : CleanupTimer(percentUsed)

Spec == Init /\ [][Next]_vars

(***************************************************************************)
(* SpecSync: one client that only receives; lastDelivered remembers the    *)
(* last message a handler was called with.                                 *)
(***************************************************************************)
RelayDelivery(key, data) ==
    GunOn(key, data) /\ lastDelivered' = Delivery("put", key, data)

TabDelivery(m) ==
    TabMessage(m.type, m.data) /\ lastDelivered' = Delivery(m.type, m.data.id, m.data)

WebRTCDelivery(m) ==
    WebRTCMessage(m.type, m.data) /\ lastDelivered' = Delivery(m.type, m.data.id, m.data)

SyncNext ==
    \/ Tick
    \/ \E input \in GunInputs : RelayDelivery(input[1], input[2])
    \/ \E m \in PeerMessages : TabDelivery(m)
    \/ \E m \in PeerMessages : WebRTCDelivery(m)
    \/ CleanupTimer(70)

SpecSync == Init /\ [][SyncNext]_vars

(***************************************************************************)
(* SpecConv: two clients receive the records of ConvRecords, each in its   *)
(* own order and over its own transports, at time StartTime.               *)
(***************************************************************************)
peerMessageType(data) ==
    IF data.witnessCount = 1 /\ data.lastUpdate = 0 THEN "NEW_WITNESS" ELSE "UPDATE_WITNESS"

ClientGunOn(c, data) ==
    /\ clients' = [clients EXCEPT ![c] =
           [witnesses |-> loadWitnessDataWithTracking(@.witnesses, @.loadedWitnessIds,
                                                      data, data.id, now),
            loadedWitnessIds |-> IF isTracked(@.loadedWitnessIds, data.id)
                                 THEN @.loadedWitnessIds
                                 ELSE trackKey(@.loadedWitnessIds, data.id),
            applied |-> @.applied \cup {data}]]
    /\ UNCHANGED <<now, witnesses, loadedWitnessIds, memoryWarningShown, pendingAdd,
                   pendingReWitness, created, gunPuts, sent, lastDelivered, pow,
                   emergency, p2p, page>>

ClientTabMessage(c, data) ==
    /\ clients' = [clients EXCEPT ![c] =
           [witnesses |-> onTabMessage(@.witnesses, peerMessageType(data), parseWitness(data)),
            loadedWitnessIds |-> @.loadedWitnessIds,
            applied |-> @.applied \cup {data}]]
    /\ UNCHANGED <<now, witnesses, loadedWitnessIds, memoryWarningShown, pendingAdd,
                   pendingReWitness, created, gunPuts, sent, lastDelivered, pow,
                   emergency, p2p, page>>

ClientWebRTCMessage(c, data) ==
    /\ clients' = [clients EXCEPT ![c] =
           [witnesses |-> handleWebRTCMessage(@.witnesses, peerMessageType(data),
                                              parseWitness(data)),
            loadedWitnessIds |-> @.loadedWitnessIds,
            applied |-> @.applied \cup {data}]]
    /\ UNCHANGED <<now, witnesses, loadedWitnessIds, memoryWarningShown, pendingAdd,
                   pendingReWitness, created, gunPuts, sent, lastDelivered, pow,
                   emergency, p2p, page>>

ConvNext ==
    \/ \E c \in ClientNames, data \in ConvRecords : ClientGunOn(c, data)
    \/ \E c \in ClientNames, data \in ConvRecords : ClientTabMessage(c, data)
    \/ \E c \in ClientNames, data \in ConvRecords : ClientWebRTCMessage(c, data)

SpecConv == Init /\ [][ConvNext]_vars

(***************************************************************************)
(* SpecPow: the proof-of-work gate on its own.                             *)
(***************************************************************************)
\* const proof = await computeProofOfWork(text.trim())
ComputeProof(producer, text, n) ==
    /\ pow' = [phase |-> "issued", producer |-> producer, text |-> trim(text),
               proof |-> produce(producer, trim(text), n)]
    /\ UNCHANGED <<now, witnesses, loadedWitnessIds, memoryWarningShown, pendingAdd,
                   pendingReWitness, created, gunPuts, sent, lastDelivered, clients, emergency, p2p, page>>

\* verifyProofOfWork(text.trim(), proof)
VerifyProof(verifier, text) ==
    /\ pow.phase = "issued"
    /\ pow' = [phase |-> "verified", producer |-> pow.producer, text |-> pow.text,
               proof |-> pow.proof, verifier |-> verifier, against |-> trim(text),
               valid |-> verify(verifier, trim(text), pow.proof)]
    /\ UNCHANGED <<now, witnesses, loadedWitnessIds, memoryWarningShown, pendingAdd,
                   pendingReWitness, created, gunPuts, sent, lastDelivered, clients, emergency, p2p, page>>

PowNext ==
    \/ \E producer \in Producers, text \in {TextHi, TextYoPadded}, n \in 0..MaxNonce :
           ComputeProof(producer, text, n)
    \/ \E verifier \in Verifiers, text \in {TextHi, TextYoPadded} :
           VerifyProof(verifier, text)

SpecPow == Init /\ [][PowNext]_vars

(***************************************************************************)
(* SpecEmergency: one client running the emergency store.                  *)
(***************************************************************************)
\* the emergency store after addWitness has run up to its await
emergencyAddWitnessCalled(store, text, contextOf) ==
    [store EXCEPT
        !.witnesses = emergencyCheckLimit(@),
        !.pendingAdd = Append(@, [text |-> text, contextOf |-> contextOf]),
        !.sent = {Message("relay", "put", id, NullData) :
                      id \in emergencyCheckLimitDeletes(store.witnesses)}]

\* the witness the oldest pending addWitness call builds at time t
emergencyNewWitness(store, t) ==
    EmergencyWitness(EmergencyIds[store.created + 1], trim(Head(store.pendingAdd).text),
                     t, t + EmergencyExpirationTime, 1, t, Head(store.pendingAdd).contextOf)

\* the emergency store after that call has run from its await to its return
emergencyAddWitnessResolved(store, t) ==
    [store EXCEPT
        !.witnesses = Append(@, emergencyNewWitness(store, t)),
        !.pendingAdd = Tail(@),
        !.created = @ + 1,
        !.sent = {Message("relay", "put", emergencyNewWitness(store, t).id,
                          emergencyGunData(emergencyNewWitness(store, t)))}]

\* the emergency store after reWitness(witnessId) at time t
emergencyReWitnessed(store, witnessId, t) ==
    LET updated == emergencyReWitnessUpdate(store.witnesses, witnessId, t)
        e       == findIndex(updated, witnessId)
    IN  [store EXCEPT
            !.witnesses = updated,
            !.sent = IF e = 0 THEN {}
                     ELSE {Message("relay", "put", witnessId, emergencyGunData(updated[e]))}]

\* addWitness up to its await
EmergencyAddWitnessStart(text, contextOf) ==
    /\ emergency.created + Len(emergency.pendingAdd) < MaxEmergencyAdds
    /\ emergency' = emergencyAddWitnessCalled(emergency, text, contextOf)
    /\ UNCHANGED <<now, witnesses, loadedWitnessIds, memoryWarningShown, pendingAdd,
                   pendingReWitness, created, gunPuts, sent, lastDelivered, pow, clients, p2p, page>>

\* addWitness from the completion of its proof of work
EmergencyAddWitnessDone ==
    /\ emergency.pendingAdd # <<>>
    /\ emergency' = emergencyAddWitnessResolved(emergency, now)
    /\ UNCHANGED <<now, witnesses, loadedWitnessIds, memoryWarningShown, pendingAdd,
                   pendingReWitness, created, gunPuts, sent, lastDelivered, pow, clients, p2p, page>>

\* reWitness: it has no await
EmergencyReWitness(witnessId) ==
    /\ emergency' = emergencyReWitnessed(emergency, witnessId, now)
    /\ UNCHANGED <<now, witnesses, loadedWitnessIds, memoryWarningShown, pendingAdd,
                   pendingReWitness, created, gunPuts, sent, lastDelivered, pow, clients, p2p, page>>

\* setInterval(emergencyCleanup, EMERGENCY_CONFIG.cleanupInterval)
EmergencyCleanup ==
    /\ emergency' = [emergency EXCEPT
           !.witnesses = emergencyCleanup(@, now),
           !.sent = {Message("relay", "put", id, NullData) :
                         id \in emergencyCleanupDeletes(emergency.witnesses, now)}]
    /\ UNCHANGED <<now, witnesses, loadedWitnessIds, memoryWarningShown, pendingAdd,
                   pendingReWitness, created, gunPuts, sent, lastDelivered, pow, clients, p2p, page>>

\* fieldNode.map().on of initializeStore, called with a remote record
EmergencyGunOn(key, data) ==
    /\ emergency' = [emergency EXCEPT
           !.witnesses = emergencyLoad(@, data, now),
           !.sent = IF ~emergencyInvalid(data) /\ data.expiresAt # 0 /\ data.expiresAt <= now
                    THEN {Message("relay", "put", key, NullData)} ELSE {}]
    /\ UNCHANGED <<now, witnesses, loadedWitnessIds, memoryWarningShown, pendingAdd,
                   pendingReWitness, created, gunPuts, sent, pow, clients, p2p, page>>

\* time passes while no addWitness call awaits its proof of work (200 ms)
EmergencyTick == Tick /\ emergency.pendingAdd = <<>>

EmergencyNext ==
    \/ EmergencyTick
    \/ EmergencyAddWitnessStart(TextYoPadded, <<>>)
    \/ EmergencyAddWitnessDone
    \/ \E witnessId \in {Id_e1, Id_r1} : EmergencyReWitness(witnessId)
    \/ EmergencyCleanup
    \/ \E input \in EmergencyInputs :
           EmergencyGunOn(input[1], input[2]) /\ UNCHANGED lastDelivered

SpecEmergency == Init /\ [][EmergencyNext]_vars

(***************************************************************************)
(* SpecPlace: witnesses arrive from another tab and one witness is created *)
(* in the context of a parent.                                             *)
(***************************************************************************)
Id_b1 == <<98, 49>>     \* "b1", "b2", "b3", created by other clients
Id_b2 == <<98, 50>>
Id_b3 == <<98, 51>>

PlacedRecord(id, x, y) == [RecordCreated EXCEPT !.id = id, !.positionX = x, !.positionY = y]

\* r1 in the middle of the field with b1 on its N candidate; r2 in a corner of the
\* field, where the clamp leaves four distinct candidate spots, with b2 and b3
\* each between two of them
PlaceRecords ==
    { PlacedRecord(Id_r1, 50, 50), PlacedRecord(Id_b1, 50, 48),
      PlacedRecord(Id_r2, 99, 1), PlacedRecord(Id_b2, 99, 2), PlacedRecord(Id_b3, 97, 2) }

PlaceNext ==
    \/ \E data \in PlaceRecords :
           TabMessage("NEW_WITNESS", parseWitness(data)) /\ UNCHANGED lastDelivered
    \/ \E contextOf \in {Id_r1, Id_r2} : AddWitnessStart(TextYoPadded, contextOf)
    \/ \E random \in RandomPositions : AddWitnessDone(1, random)

SpecPlace == Init /\ [][PlaceNext]_vars

(***************************************************************************)
(* SpecP2P: one client running the P2P store among PeerIds.                *)
(***************************************************************************)
PeerIds == {"p1", "p2", "p3"}
\* reWitness is not called on a witness whose count is P2PMaxCount
P2PMaxCount == 2
\* the clock of SpecP2P advances P2PMaxTicks times
P2PMaxTicks == 1

\* r1 lives long, r2 expires between the first and the second tick, r3 had expired
\* before the client started and is still in the memory of the peer that sends it
PeerWitnessLong == P2PWitness(Id_r1, TextHi, 10, 10 + P2PExpirationTime, 1, <<>>)
PeerWitnessBrief == P2PWitness(Id_r2, TextYo, 20, StartTime + TickMs - 1, 2, <<>>)
PeerWitnessStale == P2PWitness(Id_r3, TextHi, 5, StartTime - 1, 1, <<>>)

\* what a peer's data channel can deliver
PeerChannelMessages ==
    { PeerMessage("me", "witness-sync", <<PeerWitnessLong, PeerWitnessBrief>>),
      PeerMessage("me", "witness-new", <<PeerWitnessStale>>),
      PeerMessage("me", "witness-update", <<[PeerWitnessLong EXCEPT !.witnessCount = 2]>>) }

\* the discovery listener sees an active, fresh peer: attemptConnection up to the
\* registration of its signaling listener
P2PAttemptConnection(peerId) ==
    /\ peerId \notin p2p.connections
    /\ Cardinality(p2p.connections) < P2PMaxConnections
    /\ p2p' = [p2p EXCEPT !.connections = @ \cup {peerId},
                          !.monitored = @ \cup {peerId},
                          !.dataChannels = @ \cup {peerId},
                          !.listeners = @ \cup {peerId},
                          !.sent = {}]
    /\ UNCHANGED <<now, witnesses, loadedWitnessIds, memoryWarningShown, pendingAdd,
                   pendingReWitness, created, gunPuts, sent, lastDelivered, pow, clients,
                   emergency, page>>

\* onconnectionstatechange with 'failed' or 'disconnected': cleanupConnection
P2PConnectionFailed(peerId) ==
    /\ peerId \in p2p.monitored
    /\ p2p' = [p2p EXCEPT !.connections = @ \ {peerId},
                          !.monitored = @ \ {peerId},
                          !.dataChannels = @ \ {peerId},
                          !.open = @ \ {peerId},
                          !.sent = {}]
    /\ UNCHANGED <<now, witnesses, loadedWitnessIds, memoryWarningShown, pendingAdd,
                   pendingReWitness, created, gunPuts, sent, lastDelivered, pow, clients,
                   emergency, page>>

\* the signaling listener of attemptConnection is called with an offer of the peer
\* while no connection to it is held: handleIncomingOffer
P2POfferReceived(peerId) ==
    /\ peerId \in p2p.listeners
    /\ peerId \notin p2p.connections
    /\ p2p' = [p2p EXCEPT !.connections = @ \cup {peerId}, !.sent = {}]
    /\ UNCHANGED <<now, witnesses, loadedWitnessIds, memoryWarningShown, pendingAdd,
                   pendingReWitness, created, gunPuts, sent, lastDelivered, pow, clients,
                   emergency, page>>

\* ondatachannel of an answered connection: setupDataChannel
P2POnDataChannel(peerId) ==
    /\ peerId \in p2p.connections \ p2p.monitored
    /\ peerId \notin p2p.dataChannels
    /\ p2p' = [p2p EXCEPT !.dataChannels = @ \cup {peerId}, !.sent = {}]
    /\ UNCHANGED <<now, witnesses, loadedWitnessIds, memoryWarningShown, pendingAdd,
                   pendingReWitness, created, gunPuts, sent, lastDelivered, pow, clients,
                   emergency, page>>

\* channel.onopen: sendWitnessesToPeer
P2PChannelOpen(peerId) ==
    /\ peerId \in p2p.dataChannels \ p2p.open
    /\ p2p' = [p2p EXCEPT !.open = @ \cup {peerId},
                          !.sent = {sendWitnessesToPeer(p2p.witnessMemory, peerId)}]
    /\ UNCHANGED <<now, witnesses, loadedWitnessIds, memoryWarningShown, pendingAdd,
                   pendingReWitness, created, gunPuts, sent, lastDelivered, pow, clients,
                   emergency, page>>

\* channel.onclose
P2PChannelClose(peerId) ==
    /\ peerId \in p2p.open
    /\ p2p' = [p2p EXCEPT !.dataChannels = @ \ {peerId},
                          !.open = @ \ {peerId},
                          !.sent = {}]
    /\ UNCHANGED <<now, witnesses, loadedWitnessIds, memoryWarningShown, pendingAdd,
                   pendingReWitness, created, gunPuts, sent, lastDelivered, pow, clients,
                   emergency, page>>

\* channel.onmessage of an open channel: handlePeerMessage
P2PChannelMessage(peerId, message) ==
    /\ peerId \in p2p.open
    /\ LET memory == handlePeerMessage(p2p.witnessMemory, message)
       IN  p2p' = [p2p EXCEPT !.witnessMemory = memory,
                              !.witnesses = IF memory # p2p.witnessMemory
                                            THEN updateWitnessStore(memory, now) ELSE @,
                              !.sent = {}]
    /\ UNCHANGED <<now, witnesses, loadedWitnessIds, memoryWarningShown, pendingAdd,
                   pendingReWitness, created, gunPuts, sent, lastDelivered, pow, clients,
                   emergency, page>>

\* addWitness of the P2P store; generateWitnessId returns Id_w1
P2PAddWitness(text, contextOf) ==
    /\ p2p.created < MaxLocalWitnesses
    /\ LET witness == P2PWitness(Id_w1, trim(text), now, now + P2PExpirationTime, 1,
                                 contextOf)
           memory  == memorySet(p2p.witnessMemory, witness)
       IN  p2p' = [p2p EXCEPT !.witnessMemory = memory,
                              !.witnesses = updateWitnessStore(memory, now),
                              !.created = @ + 1,
                              !.sent = broadcastWitness(p2p.open, witness, "witness-new")]
    /\ UNCHANGED <<now, witnesses, loadedWitnessIds, memoryWarningShown, pendingAdd,
                   pendingReWitness, created, gunPuts, sent, lastDelivered, pow, clients,
                   emergency, page>>

\* reWitness of the P2P store; for an id witnessMemory does not hold it returns
\* before it stores or sends anything
P2PReWitness(witnessId) ==
    /\ LET e      == findIndex(p2p.witnessMemory, witnessId)
           memory == p2pReWitness(p2p.witnessMemory, witnessId, now)
       IN  /\ e # 0 => p2p.witnessMemory[e].witnessCount < P2PMaxCount
           /\ p2p' = [p2p EXCEPT
                  !.witnessMemory = memory,
                  !.witnesses = IF e = 0 THEN @ ELSE updateWitnessStore(memory, now),
                  !.sent = IF e = 0 THEN {}
                           ELSE broadcastWitness(p2p.open, memory[e], "witness-update")]
    /\ UNCHANGED <<now, witnesses, loadedWitnessIds, memoryWarningShown, pendingAdd,
                   pendingReWitness, created, gunPuts, sent, lastDelivered, pow, clients,
                   emergency, page>>

\* setInterval(cleanupExpiredWitnesses, P2P_CONFIG.cleanupInterval)
P2PCleanup ==
    /\ LET memory == cleanupExpiredWitnesses(p2p.witnessMemory, now)
       IN  p2p' = [p2p EXCEPT !.witnessMemory = memory,
                              !.witnesses = IF Len(memory) < Len(p2p.witnessMemory)
                                            THEN updateWitnessStore(memory, now) ELSE @,
                              !.sent = {}]
    /\ UNCHANGED <<now, witnesses, loadedWitnessIds, memoryWarningShown, pendingAdd,
                   pendingReWitness, created, gunPuts, sent, lastDelivered, pow, clients,
                   emergency, page>>

P2PTick == Tick /\ now < StartTime + P2PMaxTicks * TickMs

P2PNext ==
    \/ P2PTick
    \/ \E peerId \in PeerIds : P2PAttemptConnection(peerId)
    \/ \E peerId \in PeerIds : P2PConnectionFailed(peerId)
    \/ \E peerId \in PeerIds : P2POfferReceived(peerId)
    \/ \E peerId \in PeerIds : P2POnDataChannel(peerId)
    \/ \E peerId \in PeerIds : P2PChannelOpen(peerId)
    \/ \E peerId \in PeerIds : P2PChannelClose(peerId)
    \/ \E peerId \in PeerIds, message \in PeerChannelMessages :
           P2PChannelMessage(peerId, message)
    \/ P2PAddWitness(TextYoPadded, <<>>)
    \/ \E witnessId \in {Id_w1} : P2PReWitness(witnessId)
    \/ P2PCleanup

SpecP2P == Init /\ [][P2PNext]_vars

(***************************************************************************)
(* SpecUnique: a client of the main store and a client of the emergency    *)
(* store, each creating witnesses while the relay returns its own writes   *)
(* and other clients' records arrive.                                      *)
(***************************************************************************)
\* the relay listener of the emergency store, called with what the store has just put
EmergencyGunEcho ==
    \E m \in emergency.sent :
        m.data # NullData /\ EmergencyGunOn(m.key, m.data) /\ UNCHANGED lastDelivered

UniqueNext ==
    \/ AddWitnessStart(TextYoPadded, <<>>)
    \/ \E random \in RandomPositions : AddWitnessDone(1, random)
    \/ GunEcho
    \/ GunOn(Id_r1, RecordA) /\ UNCHANGED lastDelivered
    \/ \E m \in FieldMessages : TabMessage(m.type, m.data) /\ UNCHANGED lastDelivered
    \/ \E m \in FieldMessages : WebRTCMessage(m.type, m.data) /\ UNCHANGED lastDelivered
    \/ EmergencyAddWitnessStart(TextYoPadded, <<>>)
    \/ EmergencyAddWitnessDone
    \/ EmergencyGunEcho
    \/ \E data \in {RecordCreated, RecordOvercounted} :
           EmergencyGunOn(data.id, data) /\ UNCHANGED lastDelivered

SpecUnique == Init /\ [][UniqueNext]_vars

(***************************************************************************)
(* SpecOverlap: reWitness is called on r1 while earlier calls still await  *)
(* their proof of work; pow remembers how many calls were in flight when   *)
(* the last one completed.                                                 *)
(***************************************************************************)
\* at most MaxOverlap reWitness calls for r1 are in flight at a time
MaxOverlap == 3

OverlapBegin ==
    /\ pendingReWitness[Id_r1] < MaxOverlap
    /\ findIndex(witnesses, Id_r1) # 0
       => witnesses[findIndex(witnesses, Id_r1)].witnessCount + pendingReWitness[Id_r1]
              < 1 + MaxOverlap
    /\ ReWitnessBegin(Id_r1)

OverlapComplete ==
    /\ ReWitnessComplete(Id_r1)
    /\ pow' = [phase |-> "rewitnessed", witnessId |-> Id_r1,
               inFlight |-> pendingReWitness[Id_r1]]

OverlapNext ==
    \/ Tick
    \/ TabMessage("NEW_WITNESS", parseWitness(RecordCreated)) /\ UNCHANGED lastDelivered
    \/ TabMessage("UPDATE_WITNESS", parseWitness(RecordA)) /\ UNCHANGED lastDelivered
    \/ OverlapBegin
    \/ OverlapComplete
    \/ GunEcho
    \/ \E percentUsed \in MemorySamples : CleanupTimer(percentUsed)

SpecOverlap == Init /\ [][OverlapNext]_vars

(***************************************************************************)
(* SpecPage: the main page over the emergency store.  page.intervals holds *)
(* the setInterval timers that have not been cleared, page.timeouts the    *)
(* witnesses a setTimeout of submitWitness will select, page.calls the     *)
(* reWitness calls a timer callback awaits.  The callback's await is       *)
(* modelled as a point where any other event may run.                      *)
(***************************************************************************)
\* at most MaxIntervals timers are created
MaxIntervals == 4

\* clearInterval(validationInterval)
clearInterval(intervals, id) == {t \in intervals : t.id # id}

\* a context selection that never clears the timer of the previous selection
startContextWitnessKeepingTimer(view, witnessId) ==
    [view EXCEPT
        !.contextWitnessId = witnessId,
        !.intervals = @ \cup {[id |-> view.created + 1, witnessId |-> witnessId]},
        !.validationInterval = view.created + 1,
        !.created = @ + 1]

\* startContextWitness(witness)
startContextWitness(view, witnessId) ==
    [view EXCEPT
        !.contextWitnessId = witnessId,
        !.intervals = clearInterval(@, view.validationInterval)
                          \cup {[id |-> view.created + 1, witnessId |-> witnessId]},
        !.validationInterval = view.created + 1,
        !.created = @ + 1]

\* cancelContext()
cancelContext(view) ==
    [view EXCEPT
        !.intervals = clearInterval(@, view.validationInterval),
        !.validationInterval = 0,
        !.contextWitnessId = <<>>]

\* onWitnessInteract(witness): a click on a witness of the field
PageInteract(witnessId) ==
    /\ ~page.destroyed
    /\ page.created < MaxIntervals
    /\ findIndex(emergency.witnesses, witnessId) # 0
    /\ page' = startContextWitness(page, witnessId)
    /\ UNCHANGED <<now, witnesses, loadedWitnessIds, memoryWarningShown, pendingAdd,
                   pendingReWitness, created, gunPuts, sent, lastDelivered, pow, clients,
                   emergency, p2p>>

\* a click on the cancel button or on the empty field
PageCancel ==
    /\ ~page.destroyed
    /\ page' = cancelContext(page)
    /\ UNCHANGED <<now, witnesses, loadedWitnessIds, memoryWarningShown, pendingAdd,
                   pendingReWitness, created, gunPuts, sent, lastDelivered, pow, clients,
                   emergency, p2p>>

\* the callback of setInterval in startContextWitness, up to its await
PageIntervalTick(timer) ==
    /\ timer \in page.intervals
    /\ IF page.contextWitnessId = timer.witnessId /\ ~page.isValidating
       THEN /\ page' = [page EXCEPT
                   !.isValidating = TRUE,
                   !.calls = @ \cup {[interval |-> timer.id, witnessId |-> timer.witnessId]}]
            /\ emergency' = emergencyReWitnessed(emergency, timer.witnessId, now)
       ELSE UNCHANGED <<page, emergency>>
    /\ UNCHANGED <<now, witnesses, loadedWitnessIds, memoryWarningShown, pendingAdd,
                   pendingReWitness, created, gunPuts, sent, lastDelivered, pow, clients,
                   p2p>>

\* the same callback from its await to its end
PageValidated(call) ==
    /\ call \in page.calls
    /\ page' = [page EXCEPT !.calls = @ \ {call}, !.isValidating = FALSE]
    /\ UNCHANGED <<now, witnesses, loadedWitnessIds, memoryWarningShown, pendingAdd,
                   pendingReWitness, created, gunPuts, sent, lastDelivered, pow, clients,
                   emergency, p2p>>

\* submitWitness up to its await
PageSubmit(witnessText) ==
    /\ ~page.destroyed
    /\ Len(trim(witnessText)) > 0
    /\ ~page.isSubmitting
    /\ emergency.created + Len(emergency.pendingAdd) < MaxEmergencyAdds
    /\ page' = [page EXCEPT !.isSubmitting = TRUE]
    /\ emergency' = emergencyAddWitnessCalled(emergency, witnessText, page.contextWitnessId)
    /\ UNCHANGED <<now, witnesses, loadedWitnessIds, memoryWarningShown, pendingAdd,
                   pendingReWitness, created, gunPuts, sent, lastDelivered, pow, clients,
                   p2p>>

\* submitWitness from its await to its end
PageSubmitted ==
    /\ page.isSubmitting
    /\ emergency.pendingAdd # <<>>
    /\ emergency' = emergencyAddWitnessResolved(emergency, now)
    /\ page' = [cancelContext(page) EXCEPT
           !.timeouts = @ \cup {emergencyNewWitness(emergency, now).id},
           !.isSubmitting = FALSE]
    /\ UNCHANGED <<now, witnesses, loadedWitnessIds, memoryWarningShown, pendingAdd,
                   pendingReWitness, created, gunPuts, sent, lastDelivered, pow, clients,
                   p2p>>

\* the callback of setTimeout in submitWitness
PageTimeout(witnessId) ==
    /\ witnessId \in page.timeouts
    /\ page.created < MaxIntervals
    /\ page' = startContextWitness([page EXCEPT !.timeouts = @ \ {witnessId}], witnessId)
    /\ UNCHANGED <<now, witnesses, loadedWitnessIds, memoryWarningShown, pendingAdd,
                   pendingReWitness, created, gunPuts, sent, lastDelivered, pow, clients,
                   emergency, p2p>>

\* onDestroy
PageDestroy ==
    /\ ~page.destroyed
    /\ page' = [page EXCEPT
           !.intervals = clearInterval(@, page.validationInterval),
           !.destroyed = TRUE]
    /\ UNCHANGED <<now, witnesses, loadedWitnessIds, memoryWarningShown, pendingAdd,
                   pendingReWitness, created, gunPuts, sent, lastDelivered, pow, clients,
                   emergency, p2p>>

PageNext ==
    \/ Tick /\ now < StartTime + TickMs
    \/ EmergencyGunOn(Id_r1, RecordA) /\ UNCHANGED lastDelivered
    \/ EmergencyCleanup
    \/ \E witnessId \in {Id_e1, Id_e2, Id_r1} : PageInteract(witnessId)
    \/ PageCancel
    \/ \E timer \in page.intervals : PageIntervalTick(timer)
    \/ \E call \in page.calls : PageValidated(call)
    \/ PageSubmit(TextYoPadded)
    \/ PageSubmitted
    \/ \E witnessId \in page.timeouts : PageTimeout(witnessId)
    \/ PageDestroy

SpecPage == Init /\ [][PageNext]_vars

(***************************************************************************)
(* SpecFirstWrite: the emergency store receives records for ids it holds;  *)
(* lastDelivered remembers the last record its relay listener was called   *)
(* with.                                                                   *)
(***************************************************************************)
FirstWriteNext ==
    \/ EmergencyTick
    \/ EmergencyAddWitnessStart(TextYoPadded, <<>>)
    \/ EmergencyAddWitnessDone
    \/ \E witnessId \in {Id_e1, Id_r1} : EmergencyReWitness(witnessId)
    \/ EmergencyCleanup
    \/ \E input \in EmergencyInputs :
           /\ EmergencyGunOn(input[1], input[2])
           /\ lastDelivered' = Delivery("put", input[1], input[2])
    \/ EmergencyGunEcho

SpecFirstWrite == Init /\ [][FirstWriteNext]_vars

(***************************************************************************)
(* SpecMerge: one peer's data channel delivers witnesses whose ids the P2P *)
(* store may hold already, with other counts, texts, times and positions.  *)
(***************************************************************************)
\* r1 as another peer holds it
PeerWitnessRetold ==
    [PeerWitnessLong EXCEPT !.witnessCount = 3, !.text = TextYo, !.createdAt = 11,
                            !.expiresAt = @ + 1, !.position = <<1, 99>>]

MergeMessages ==
    { PeerMessage("me", "witness-sync", <<PeerWitnessLong, PeerWitnessBrief>>),
      PeerMessage("me", "witness-sync",
                  <<[PeerWitnessRetold EXCEPT !.witnessCount = 2], PeerWitnessStale>>),
      PeerMessage("me", "witness-new", <<PeerWitnessRetold>>),
      PeerMessage("me", "witness-update", <<PeerWitnessRetold>>),
      PeerMessage("me", "witness-update", <<PeerWitnessLong>>),
      PeerMessage("me", "witness-update", <<[PeerWitnessStale EXCEPT !.witnessCount = 2]>>) }

MergeNext ==
    \/ P2PTick
    \/ P2PAttemptConnection("p1")
    \/ P2PChannelOpen("p1")
    \/ \E message \in MergeMessages : P2PChannelMessage("p1", message)
    \/ P2PAddWitness(TextYoPadded, <<>>)
    \/ P2PReWitness(Id_w1)
    \/ P2PCleanup

SpecMerge == Init /\ [][MergeNext]_vars

(***************************************************************************)
(* SpecLost: a client of the main store that receives tab and WebRTC       *)
(* messages before and after the relay record they refer to.               *)
(***************************************************************************)
LostNext ==
    \/ Tick
    \/ RelayDelivery(Id_r1, RecordA)
    \/ \E m \in PeerMessages : TabDelivery(m)
    \/ \E m \in PeerMessages : WebRTCDelivery(m)
    \/ CleanupTimer(70)

SpecLost == Init /\ [][LostNext]_vars

(***************************************************************************)
(* SpecMissing: a client of the main store and a client of the P2P store,  *)
(* each asked to re-witness ids it holds and ids it does not hold.         *)
(***************************************************************************)
MissingNext ==
    \/ Tick
    \/ TabMessage("NEW_WITNESS", parseWitness(RecordCreated)) /\ UNCHANGED lastDelivered
    \/ \E witnessId \in ReWitnessIds : ReWitnessStart(witnessId)
    \/ \E witnessId \in ReWitnessIds : ReWitnessDone(witnessId) /\ UNCHANGED pow
    \/ CleanupTimer(70)
    \/ P2PAttemptConnection("p1")
    \/ P2PChannelOpen("p1")
    \/ P2PChannelMessage("p1", PeerMessage("me", "witness-new", <<PeerWitnessBrief>>))
    \/ P2PAddWitness(TextYoPadded, <<>>)
    \/ \E witnessId \in {Id_w1, Id_r2, Id_r3} : P2PReWitness(witnessId)
    \/ P2PCleanup

SpecMissing == Init /\ [][MissingNext]_vars

\* C27: the number of peer connections P2PManager holds never exceeds maxConnections,
\* whatever the interleaving of discovery events, incoming offers, connection
\* failures and cleanups.
C27_ConnectionLimit == Cardinality(p2p.connections) <= P2PMaxConnections

\* C22: in the P2P store no step sends a peer a witness-sync, witness-new or
\* witness-update message that holds an entry with expiresAt <= now, and no step adds
\* a peer's record with expiresAt <= now to witnessMemory.
C22_NoExpiredExchange ==
    [][ now' = now
        => /\ \A message \in p2p'.sent :
                  \A i \in 1..Len(message.witnesses) : message.witnesses[i].expiresAt > now
           /\ \A peerId \in PeerIds, message \in PeerChannelMessages :
                  P2PChannelMessage(peerId, message)
                  => \A j \in 1..Len(p2p'.witnessMemory) :
                         \/ findIndex(p2p.witnessMemory, p2p'.witnessMemory[j].id) # 0
                         \/ p2p'.witnessMemory[j].expiresAt > now
      ]_vars

(***************************************************************************)
(* The store at capacity: three records of three ids arrive, from the      *)
(* relay and from other tabs, at a store that keeps                        *)
(* MAX_WITNESSES_IN_MEMORY of them.                                        *)
(***************************************************************************)
CapNext ==
    \/ Tick
    \/ \E data \in CapRecords : GunOn(data.id, data) /\ UNCHANGED lastDelivered
    \/ \E data \in CapRecords :
           TabMessage("NEW_WITNESS", parseWitness(data)) /\ UNCHANGED lastDelivered
    \/ TabMessage("UPDATE_WITNESS", parseWitness(RecordRetold)) /\ UNCHANGED lastDelivered
    \/ TabMessage("UPDATE_WITNESS", parseWitness(RecordThrice)) /\ UNCHANGED lastDelivered
    \/ TabMessage("UPDATE_WITNESS", parseWitness(RecordMoved)) /\ UNCHANGED lastDelivered
    \/ WebRTCMessage("UPDATE_WITNESS", parseWitness(RecordMoved)) /\ UNCHANGED lastDelivered
    \/ GunOn(Id_r1, RecordMoved) /\ UNCHANGED lastDelivered
    \/ WebRTCMessage("UPDATE_WITNESS", parseWitness(RecordRetold)) /\ UNCHANGED lastDelivered
    \/ GunOn(Id_r1, RecordRetold) /\ UNCHANGED lastDelivered
    \/ CleanupTimer(70)

SpecCap == Init /\ [][CapNext]_vars

(***************************************************************************)
(* The periodic sweep under fair scheduling.  Witnesses are created and    *)
(* records arrive at StartTime only; afterwards no record arrives (the     *)
(* client may be offline) and nothing is re-witnessed.  The interval timer *)
(* keeps firing, time advances, and a promise or relay echo that is        *)
(* pending is eventually run.                                              *)
(***************************************************************************)
\* the store holds at most two witnesses here: the created one and r1
LiveRecords == {RecordCreated, RecordA}

LiveIds == {Id_w1, Id_r1}

LiveSweep == \E percentUsed \in MemorySamples : CleanupTimer(percentUsed)

LiveAddWitnessDone == \E n \in 0..MaxNonce, random \in RandomPositions : AddWitnessDone(n, random)

LiveNext ==
    \/ Tick
    \/ /\ now = StartTime
       /\ created < Len(LocalIds)
       /\ AddWitnessStart(TextYoPadded, <<>>)
    \/ LiveAddWitnessDone
    \/ GunEcho
    \/ \E data \in LiveRecords :
           now = StartTime /\ GunOn(data.id, data) /\ UNCHANGED lastDelivered
    \/ \E data \in LiveRecords :
           /\ now = StartTime
           /\ TabMessage("NEW_WITNESS", parseWitness(data))
           /\ UNCHANGED lastDelivered
    \/ LiveSweep

SpecLive ==
    /\ Init /\ [][LiveNext]_vars
    /\ WF_vars(Tick) /\ WF_vars(LiveSweep) /\ WF_vars(LiveAddWitnessDone) /\ WF_vars(GunEcho)

(***************************************************************************)
(* Witnesses at the edge of expiry: other tabs and the relay deliver        *)
(* records that expire around the first tick, time advances, and the sweep *)
(* filters the store with getActiveWitnesses.                              *)
(***************************************************************************)
ActiveNext ==
    \/ Tick
    \/ \E data \in EdgeRecords :
           TabMessage("NEW_WITNESS", parseWitness(data)) /\ UNCHANGED lastDelivered
    \/ \E data \in EdgeRecords : GunOn(data.id, data) /\ UNCHANGED lastDelivered
    \/ \E percentUsed \in MemorySamples : CleanupTimer(percentUsed)

SpecActive == Init /\ [][ActiveNext]_vars

(***************************************************************************)
(* The relay listener called under bookkeeping keys.                       *)
(***************************************************************************)
KeyNext ==
    \E input \in KeyInputs : GunOn(input[1], input[2]) /\ UNCHANGED lastDelivered

SpecKeys == Init /\ [][KeyNext]_vars

(***************************************************************************)
(* reWitness with its proof of work followed: pow records, for the last    *)
(* reWitness that completed, the proof it computed and whether the store   *)
(* held the id when it completed.                                          *)
(***************************************************************************)
ReWitnessProof(witnessId, n) ==
    /\ ReWitnessDone(witnessId)
    /\ pow' = [phase |-> "rewitnessed", witnessId |-> witnessId,
               proof |-> computeValidationProof(witnessId, now, n),
               found |-> findIndex(witnesses, witnessId) # 0]

ReMessages ==
    { [type |-> "NEW_WITNESS", data |-> parseWitness(RecordCreated)],
      [type |-> "NEW_WITNESS", data |-> parseWitness(RecordExpired)],
      [type |-> "NEW_WITNESS", data |-> parseWitness(RecordFarAhead)] }

ReNext ==
    \/ \E m \in ReMessages : TabMessage(m.type, m.data) /\ UNCHANGED lastDelivered
    \/ GunOn(Id_r1, RecordA) /\ UNCHANGED lastDelivered
    \/ \E witnessId \in ReWitnessIds : ReWitnessStart(witnessId)
    \/ \E witnessId \in ReWitnessIds, n \in 0..MaxNonce : ReWitnessProof(witnessId, n)
    \/ \E percentUsed \in MemorySamples : CleanupTimer(percentUsed)

SpecRe == Init /\ [][ReNext]_vars

(***************************************************************************)
(* Properties.                                                             *)
(***************************************************************************)
\* (witnessCount, lastUpdate) of the first pair is strictly greater, lexicographically
orderingKeyGreater(count1, update1, count2, update2) ==
    count1 > count2 \/ (count1 = count2 /\ update1 > update2)

\* the store's entry for id (the id is in the store)
entryOf(current, id) == current[findIndex(current, id)]

\* a relay record that loadWitnessData carries to its merge step at time t
reachesMerge(key, data, t) ==
    passesFormatChecks(data, key) /\ key = data.id /\ data.expiresAt > t

\* C1: when a record arrives over the relay, or as UPDATE_WITNESS over the tab or
\* WebRTC channel, for an id already in the store, the store changes if and only if
\* the incoming (witnessCount, lastUpdate) is strictly greater than the local one.
C1_MergeRule ==
    [][ /\ \A input \in GunInputs :
              ( /\ RelayDelivery(input[1], input[2])
                /\ reachesMerge(input[1], input[2], now)
                /\ findIndex(witnesses, input[2].id) # 0 )
              => ( (witnesses' # witnesses)
                   <=> orderingKeyGreater(input[2].witnessCount, input[2].lastUpdate,
                                          entryOf(witnesses, input[2].id).witnessCount,
                                          entryOf(witnesses, input[2].id).lastUpdate) )
        /\ \A m \in PeerMessages :
              ( /\ m.type = "UPDATE_WITNESS"
                /\ TabDelivery(m) \/ WebRTCDelivery(m)
                /\ findIndex(witnesses, m.data.id) # 0 )
              => ( (witnesses' # witnesses)
                   <=> orderingKeyGreater(m.data.witnessCount, m.data.lastUpdate,
                                          entryOf(witnesses, m.data.id).witnessCount,
                                          entryOf(witnesses, m.data.id).lastUpdate) )
      ]_vars

\* the (id, witnessCount, expiresAt) tuples of the active witnesses of a store
activeTuples(current, t) ==
    LET active == getActiveWitnesses(current, t)
    IN  { <<active[i].id, active[i].witnessCount, active[i].expiresAt>> :
              i \in 1..Len(active) }

\* C2: two clients that have applied the same set of valid, unexpired records (here
\* all of ConvRecords), in any order and with any duplication, hold active witnesses
\* with identical (id, witnessCount, expiresAt) tuples.
C2_Convergence ==
    (clients["A"].applied = ConvRecords /\ clients["B"].applied = ConvRecords)
    => activeTuples(clients["A"].witnesses, now) = activeTuples(clients["B"].witnesses, now)

\* C3: delivering again the record that was delivered last, at whatever later time,
\* while its id is in the store and the record is unexpired, leaves the store
\* unchanged and sends nothing.
C3_Idempotence ==
    [][ /\ \A input \in GunInputs :
              ( /\ RelayDelivery(input[1], input[2])
                /\ lastDelivered = Delivery("put", input[1], input[2])
                /\ reachesMerge(input[1], input[2], now)
                /\ findIndex(witnesses, input[2].id) # 0 )
              => (witnesses' = witnesses /\ sent' = {})
        /\ \A m \in PeerMessages :
              ( /\ TabDelivery(m) \/ WebRTCDelivery(m)
                /\ lastDelivered = Delivery(m.type, m.data.id, m.data)
                /\ m.data.expiresAt > now
                /\ findIndex(witnesses, m.data.id) # 0 )
              => (witnesses' = witnesses /\ sent' = {})
      ]_vars

\* C4: decay is display-only: a tick of the cleanup timer never changes the stored
\* witnessCount of an entry it keeps.
C4_DecayDisplayOnly ==
    [][ \A percentUsed \in MemorySamples :
            CleanupTimer(percentUsed)
            => \A i \in 1..Len(witnesses), j \in 1..Len(witnesses') :
                   witnesses'[j].id = witnesses[i].id
                   => witnesses'[j].witnessCount = witnesses[i].witnessCount
      ]_vars

\* C5: over any step (addWitness, reWitness, an incoming record, a sweep tick) the
\* stored witnessCount of an id that stays in the store does not decrease, and it
\* is at least 1.
C5_CountNeverDecreases ==
    [][ /\ \A j \in 1..Len(witnesses') : witnesses'[j].witnessCount >= 1
        /\ \A i \in 1..Len(witnesses), j \in 1..Len(witnesses') :
               witnesses'[j].id = witnesses[i].id
               => witnesses'[j].witnessCount >= witnesses[i].witnessCount
      ]_vars

\* C6: for every witness a client holds, local or received, the effective count
\* calculateCurrentWitnessCount returns is at least 1 and at most the stored witnessCount.
C6_EffectiveCountBounds ==
    \A c \in ClientNames :
        \A i \in 1..Len(clients[c].witnesses) :
            LET witness == clients[c].witnesses[i]
            IN  /\ calculateCurrentWitnessCount(witness, now) >= 1
                /\ calculateCurrentWitnessCount(witness, now) <= witness.witnessCount

\* C7: whichever nonce the search stops at, the proof computeProofOfWork returns for a
\* text is accepted by the verifyProofOfWork of the same source file for that text.
C7_ProofRoundTrip ==
    ( /\ pow.phase = "verified"
      /\ pow.verifier = ownVerifier(pow.producer)
      /\ pow.against = pow.text )
    => pow.valid

\* C8: the store never holds a witness whose proof does not verify against its text.
C8_StrictAdmission ==
    \A i \in 1..Len(witnesses) : proofVerdict(witnesses[i]) # "invalid"

\* C9: a record with expiresAt <= now that arrives over the relay, the tab channel or
\* the WebRTC channel leaves the store unchanged.
C9_ExpiredOnArrival ==
    [][ /\ \A input \in GunInputs :
              (RelayDelivery(input[1], input[2]) /\ input[2].format # "null"
                   /\ input[2].expiresAt <= now)
              => witnesses' = witnesses
        /\ \A m \in PeerMessages :
              ( /\ TabDelivery(m) \/ WebRTCDelivery(m)
                /\ m.type \in {"NEW_WITNESS", "UPDATE_WITNESS"}
                /\ m.data.expiresAt <= now )
              => witnesses' = witnesses
      ]_vars

\* C10: an incomplete relay record leaves the store unchanged, and when the complete,
\* valid, unexpired record for the same key is delivered after it, that record is
\* admitted: its id is in the store.
C10_IncompleteThenComplete ==
    [][ /\ RelayDelivery(Id_r1, RecordIncomplete) => witnesses' = witnesses
        /\ ( /\ lastDelivered = Delivery("put", Id_r1, RecordIncomplete)
             /\ RelayDelivery(Id_r1, RecordA)
             /\ RecordA.expiresAt > now )
           => findIndex(witnesses', Id_r1) # 0
      ]_vars

\* C14: the emergency store never holds more than maxWitnesses entries, in any
\* interleaving of addWitness calls, incoming relay records and cleanup ticks.
C14_EmergencyHardLimit ==
    Len(emergency.witnesses) <= EmergencyMaxWitnesses

\* C15: eviction never blocks creation or merge: a completed addWitness leaves its new
\* witness in the store, and a valid, unexpired, previously unknown relay record is in
\* the store after the listener has run, also when the store is at capacity.
C15_EvictionNeverBlocks ==
    [][ /\ EmergencyAddWitnessDone
           => findIndex(emergency'.witnesses, EmergencyIds[emergency.created + 1]) # 0
        /\ \A input \in EmergencyInputs :
              ( /\ EmergencyGunOn(input[1], input[2])
                /\ ~emergencyInvalid(input[2])
                /\ input[2].expiresAt > now
                /\ findIndex(emergency.witnesses, input[2].id) = 0 )
              => findIndex(emergency'.witnesses, input[2].id) # 0
      ]_vars

Transports == {"relay", "tab", "webrtc"}

\* out holds a message for id on every transport but arrival, and none on arrival
resentExceptOn(out, arrival, id) ==
    /\ \A transport \in Transports \ {arrival} :
           \E message \in out : message.transport = transport /\ message.key = id
    /\ \A message \in out : message.transport # arrival

\* C11: when an incoming record is accepted (it changes the store, as a new entry or as
\* an update), the step sends that record on every transport other than the one it
\* arrived on, and sends nothing on the arrival transport.
C11_Rebroadcast ==
    [][ /\ \A input \in GunInputs :
              (RelayDelivery(input[1], input[2]) /\ witnesses' # witnesses)
              => resentExceptOn(sent', "relay", input[2].id)
        /\ \A m \in PeerMessages :
              (TabDelivery(m) /\ witnesses' # witnesses)
              => resentExceptOn(sent', "tab", m.data.id)
        /\ \A m \in PeerMessages :
              (WebRTCDelivery(m) /\ witnesses' # witnesses)
              => resentExceptOn(sent', "webrtc", m.data.id)
      ]_vars

\* C12: a sweep tick leaves no entry with expiresAt <= now in the store, and for every
\* such entry it removes, the step puts null under the entry's key on the relay.
C12_ExpirySweep ==
    [][ CleanupTimer(70)
        => /\ \A j \in 1..Len(witnesses') : witnesses'[j].expiresAt > now
           /\ \A i \in 1..Len(witnesses) :
                  witnesses[i].expiresAt <= now
                  => \E message \in sent' :
                         /\ message.transport = "relay" /\ message.type = "put"
                         /\ message.key = witnesses[i].id /\ message.data = NullData
      ]_vars

\* C20: a reWitness of a witness that is in the store leaves the stored witnessCount
\* strictly greater than before and the stored expiresAt not smaller than before.
C20_ReWitnessStrengthens ==
    [][ \A witnessId \in {Id_e1, Id_r1} :
            ( /\ EmergencyReWitness(witnessId)
              /\ findIndex(emergency.witnesses, witnessId) # 0 )
            => LET i == findIndex(emergency.witnesses, witnessId)
               IN  /\ emergency'.witnesses[i].witnessCount > emergency.witnesses[i].witnessCount
                   /\ emergency'.witnesses[i].expiresAt >= emergency.witnesses[i].expiresAt
      ]_vars

\* the witness with this id is in the store and unexpired at time t
activeIn(current, id, t) ==
    \E i \in 1..Len(current) : current[i].id = id /\ current[i].expiresAt > t

\* the witness with this id is in the store and expired at time t
expiredIn(current, id, t) ==
    \E i \in 1..Len(current) : current[i].id = id /\ current[i].expiresAt <= t

\* C18: expiry is terminal: no step takes a witness that is in the store with
\* expiresAt <= now to a store where the same id is active (expiresAt > now) again,
\* be the step a reWitness, the arrival of a record or a timer.
C18_ExpiredTerminal ==
    [][ \A id \in AllIds :
            expiredIn(witnesses, id, now) => ~activeIn(witnesses', id, now')
      ]_vars

\* C16: when a reWitness of a witness in the store completes, the stored record and
\* the record put on the relay carry the proof computed during that reWitness.
C16_ReWitnessProof ==
    [][ \A witnessId \in ReWitnessIds, n \in 0..MaxNonce :
            ( /\ ReWitnessProof(witnessId, n)
              /\ findIndex(witnesses, witnessId) # 0 )
            => /\ witnesses'[findIndex(witnesses', witnessId)].proof = pow'.proof
               /\ \A message \in sent' :
                      message.transport = "relay"
                      => /\ message.data.proofNonce = pow'.proof.nonce
                         /\ message.data.proofHash = pow'.proof.hash
      ]_vars

\* C17: when a reWitness completes its proof of work for an id the store no longer
\* holds, the step does not insert the id and sends nothing.
C17_NoResurrection ==
    [][ \A witnessId \in ReWitnessIds, n \in 0..MaxNonce :
            ( /\ ReWitnessProof(witnessId, n)
              /\ findIndex(witnesses, witnessId) = 0 )
            => /\ findIndex(witnesses', witnessId) = 0
               /\ sent' = {}
               /\ gunPuts' = gunPuts
      ]_vars

\* a reWitness has completed for an id that was removed while it awaited its proof,
\* and the id is still absent
C17_Witness ==
    /\ pow.phase = "rewitnessed"
    /\ ~pow.found
    /\ findIndex(witnesses, pow.witnessId) = 0

\* Math.max(lastWitnessed, createdAt): when a witness was last touched
lastTouched(witness) == Max(witness.lastWitnessed, witness.createdAt)

\* C13: when the main store evicts for capacity (in the sweep, or when the relay
\* listener admits a record at capacity), every unexpired witness it removes was
\* touched no later than every unexpired witness it keeps.
C13_EvictLeastRecent ==
    [][ ( (\E data \in CapRecords : GunOn(data.id, data)) \/ CleanupTimer(70) )
        => \A i \in 1..Len(witnesses), j \in 1..Len(witnesses) :
               ( /\ witnesses[i].expiresAt > now
                 /\ witnesses[j].expiresAt > now
                 /\ findIndex(witnesses', witnesses[i].id) = 0
                 /\ findIndex(witnesses', witnesses[j].id) # 0 )
               => lastTouched(witnesses[i]) <= lastTouched(witnesses[j])
      ]_vars

\* C19: a witness in the store that is not re-witnessed and for which no further
\* record arrives is eventually removed by the periodic sweep, whether or not the
\* client is connected, as long as the timer keeps firing and time advances.
C19_EventuallyRemoved ==
    \A id \in LiveIds : (findIndex(witnesses, id) # 0) ~> (findIndex(witnesses, id) = 0)

\* the locally created witness has been in the store and the sweep has removed it
C19_Witness ==
    /\ created > 0
    /\ ~pendingAdd.active
    /\ findIndex(witnesses, Id_w1) = 0
    /\ now > StartTime

\* the positions of the witnesses of list that expire after t
activeIndices(list, t) == {i \in 1..Len(list) : list[i].expiresAt > t}

\* C21: getActiveWitnesses(list) is exactly the entries of list with expiresAt > now, in
\* their original order: an entry with expiresAt = now - 1 or expiresAt = now is left
\* out and one with expiresAt = now + 1 is kept.
C21_ActiveFilter ==
    LET active == getActiveWitnesses(witnesses, now)
        idx    == activeIndices(witnesses, now)
    IN  /\ Len(active) = Cardinality(idx)
        /\ \A k \in 1..Len(active) :
               \E i \in idx : /\ active[k] = witnesses[i]
                              /\ Cardinality({j \in idx : j < i}) = k - 1

\* the store holds a witness that expired a millisecond ago, one that expires now and
\* one that expires in a millisecond
C21_Witness ==
    /\ \E i \in 1..Len(witnesses) : witnesses[i].expiresAt = now - 1
    /\ \E i \in 1..Len(witnesses) : witnesses[i].expiresAt = now
    /\ \E i \in 1..Len(witnesses) : witnesses[i].expiresAt = now + 1

\* C23: a record that the relay listener is called with under a bookkeeping key (the
\* signaling and presence keys, a key starting with webrtc- or peer-, a versioned key)
\* neither creates nor modifies an entry of the store.
C23_BookkeepingKeys ==
    [][ \A key \in BookkeepingKeys : GunOn(key, RecordA) => witnesses' = witnesses ]_vars

\* the listener has been called under a bookkeeping key while the store held r1, with
\* a record that differs from the stored one
C23_Witness ==
    /\ \E i, j \in 1..Len(loadedWitnessIds) :
           /\ i < j
           /\ loadedWitnessIds[i] = Id_r1
           /\ loadedWitnessIds[j] \in BookkeepingKeys
    /\ findIndex(witnesses, Id_r1) # 0

\* C24: every witness in the store has expiresAt > createdAt, whatever sequence of
\* reWitness calls, incoming records and sweep ticks has run.
C24_ExpiresAfterCreated ==
    \A i \in 1..Len(witnesses) : witnesses[i].expiresAt > witnesses[i].createdAt

\* C25: while an id stays in the store, its text and createdAt keep the values the
\* entry was stored with: no step changes them, whatever record arrives for the id.
C25_Immutable ==
    [][ \A i \in 1..Len(witnesses), j \in 1..Len(witnesses') :
            witnesses[i].id = witnesses'[j].id
            => /\ witnesses'[j].text = witnesses[i].text
               /\ witnesses'[j].createdAt = witnesses[i].createdAt
      ]_vars

\* C26: the main store's verifyProofOfWork accepts a proof exactly when its hash string
\* is the signed or the unsigned hexadecimal form of the value recomputed for
\* (text, nonce); and so it accepts, for the text it was computed for, the proof of
\* every producer of the repository.
C26_DualEncoding ==
    ( pow.phase = "verified" /\ pow.verifier = "store" )
    => LET hash == hashOf(pow.against \o numberToString(pow.proof.nonce))
       IN  /\ pow.valid <=> pow.proof.hash \in {toHexSigned(hash), toHexUnsigned(hash)}
           /\ pow.against = pow.text => pow.valid

\* C28: every witness in the emergency store has a witnessCount of at least 1 and at
\* most maxWitnessCount, after any sequence of addWitness, reWitness, cleanup and
\* incoming relay records.
C28_EmergencyCountCap ==
    \A i \in 1..Len(emergency.witnesses) :
        /\ emergency.witnesses[i].witnessCount >= 1
        /\ emergency.witnesses[i].witnessCount <= EmergencyMaxWitnessCount

\* the store holds r1 as loaded from a record whose count exceeded the cap, and a
\* local witness that was re-witnessed up to the cap
C28_Witness ==
    /\ \E i \in 1..Len(emergency.witnesses) :
           /\ emergency.witnesses[i].id = Id_r1
           /\ emergency.witnesses[i].witnessCount = EmergencyMaxWitnessCount
           /\ emergency.witnesses[i].lastWitnessed = RecordOvercounted.lastWitnessed
    /\ \E i \in 1..Len(emergency.witnesses) :
           /\ emergency.witnesses[i].id = Id_e1
           /\ emergency.witnesses[i].witnessCount = EmergencyMaxWitnessCount

\* C29: when reWitness completes on a witness in the main store, the stored entry has
\* witnessCount one more than before, lastWitnessed = now, expiresAt =
\* calculateExpiration(previous + 1, now) and a greater lastUpdate, with id, text,
\* createdAt and contextOf unchanged; every record the step sends carries these values.
C29_ReWitnessFields ==
    [][ \A witnessId \in ReWitnessIds :
            ( /\ ReWitnessDone(witnessId)
              /\ findIndex(witnesses, witnessId) # 0 )
            => LET e        == findIndex(witnesses, witnessId)
                   previous == witnesses[e]
                   updated  == witnesses'[e]
               IN  /\ updated.witnessCount = previous.witnessCount + 1
                   /\ updated.lastWitnessed = now
                   /\ updated.expiresAt = calculateExpiration(previous.witnessCount + 1, now, now)
                   /\ updated.lastUpdate > previous.lastUpdate
                   /\ updated.id = previous.id
                   /\ updated.text = previous.text
                   /\ updated.createdAt = previous.createdAt
                   /\ updated.contextOf = previous.contextOf
                   /\ \A message \in sent' :
                          /\ message.data.id = updated.id
                          /\ message.data.text = updated.text
                          /\ message.data.createdAt = updated.createdAt
                          /\ message.data.contextOf = updated.contextOf
                          /\ message.data.witnessCount = updated.witnessCount
                          /\ message.data.lastWitnessed = updated.lastWitnessed
                          /\ message.data.expiresAt = updated.expiresAt
                          /\ message.data.lastUpdate = updated.lastUpdate
      ]_vars

\* C30: decay never touches expiration: a tick of the cleanup timer keeps the expiresAt
\* of every witness it retains, the decay step of loadWitnessData stores an incoming
\* record with the expiresAt the record carries, and the expiresAt of a stored id
\* changes only in a reWitness of that id or on receipt of a record for that id.
C30_DecayKeepsExpiration ==
    [][ /\ \A percentUsed \in MemorySamples :
               CleanupTimer(percentUsed)
               => \A j \in 1..Len(witnesses') :
                      \E i \in 1..Len(witnesses) :
                          /\ witnesses[i].id = witnesses'[j].id
                          /\ witnesses[i].expiresAt = witnesses'[j].expiresAt
        /\ \A input \in FieldRecords :
               GunOn(input[1], input[2])
               => \A j \in 1..Len(witnesses') :
                      \/ \E i \in 1..Len(witnesses) :
                             /\ witnesses[i].id = witnesses'[j].id
                             /\ witnesses[i].expiresAt = witnesses'[j].expiresAt
                      \/ /\ witnesses'[j].id = input[2].id
                         /\ witnesses'[j].expiresAt = input[2].expiresAt
        /\ \A i \in 1..Len(witnesses), j \in 1..Len(witnesses') :
               ( /\ witnesses'[j].id = witnesses[i].id
                 /\ witnesses'[j].expiresAt # witnesses[i].expiresAt )
               => \/ ReWitnessDone(witnesses[i].id)
                  \/ \E input \in FieldRecords :
                         /\ input[2].id = witnesses[i].id
                         /\ GunOn(input[1], input[2])
                  \/ /\ GunEcho
                     /\ \E data \in gunPuts : data.id = witnesses[i].id
                  \/ \E m \in FieldMessages :
                         /\ m.data.id = witnesses[i].id
                         /\ TabMessage(m.type, m.data) \/ WebRTCMessage(m.type, m.data)
      ]_vars

\* a stored witness, validated twice, whose count the decay step has brought back to 1
\* while its expiresAt is still the one computed for the count of 2
C30_Witness ==
    \E i \in 1..Len(witnesses) :
        /\ witnesses[i].witnessCount = 1
        /\ witnesses[i].lastWitnessed > witnesses[i].createdAt
        /\ witnesses[i].lastWitnessed + decayInterval <= now
        /\ witnesses[i].expiresAt = calculateExpiration(2, witnesses[i].lastWitnessed,
                                                        witnesses[i].lastWitnessed)

\* C31: the sweep tick of the main store is idempotent: run twice at the same instant,
\* with the same memory reading and nothing in between, it leaves the store content
\* that one run leaves.
C31_SweepIdempotent ==
    \A percentUsed \in MemorySamples :
        LET pressure == percentUsed > 80 /\ ~memoryWarningShown
            once     == cleanupSweep(IF pressure THEN memoryCleanup(witnesses)
                                     ELSE witnesses, now)
            shown    == IF pressure THEN TRUE
                        ELSE IF percentUsed < 60 THEN FALSE ELSE memoryWarningShown
            again    == percentUsed > 80 /\ ~shown
            twice    == cleanupSweep(IF again THEN memoryCleanup(once) ELSE once, now)
        IN  twice = once

\* C32: an incoming record, on the relay, tab or WebRTC transport, never changes the
\* position of an entry of the main store that already has one.
C32_PositionKept ==
    [][ \A i \in 1..Len(witnesses), j \in 1..Len(witnesses') :
            ( /\ witnesses'[j].id = witnesses[i].id
              /\ witnesses[i].position # NoPosition )
            => witnesses'[j].position = witnesses[i].position
      ]_vars

\* C33: a witness created in the context of a parent with a known position is placed
\* at the first of the candidates N, NE, E, SE, S, SW, W, NW (offset 2 from the
\* parent, clamped to [1,99]) that is at least 1.5 away from every positioned witness
\* other than the parent, and at the N candidate if there is none.
C33_ContextPlacement ==
    [][ ( /\ pendingAdd.active /\ ~pendingAdd'.active
          /\ pendingAdd.contextWitness.id # <<>>
          /\ pendingAdd.contextWitness.position # NoPosition )
        => LET parent   == pendingAdd.contextWitness
               others   == pendingAdd.existingWitnesses
               result   == witnesses'[Len(witnesses')].position
               offsetX  == <<0, 2, 2, 2, 0, -2, -2, -2>>
               offsetY  == <<-2, -2, 0, 2, 2, 2, 0, -2>>
               into(v)  == IF v < 1 THEN 1 ELSE IF v > 99 THEN 99 ELSE v
               cand(k)  == <<into(parent.position[1] + offsetX[k]),
                             into(parent.position[2] + offsetY[k])>>
               apart(k) == \A i \in 1..Len(others) :
                               ( others[i].position # NoPosition /\ others[i].id # parent.id )
                               => LET dx == others[i].position[1] - cand(k)[1]
                                      dy == others[i].position[2] - cand(k)[2]
                                  IN  100 * (dx * dx + dy * dy) >= 225
           IN  IF \E k \in 1..8 : apart(k)
               THEN \E k \in 1..8 : /\ apart(k)
                                    /\ \A j \in 1..(k - 1) : ~apart(j)
                                    /\ result = cand(k)
               ELSE result = cand(1)
      ]_vars

\* the new witness stands south-west of the corner parent r2: the five candidates
\* before SW, pushed onto the border by the clamp, are all within 1.5 of b2
C33_Witness ==
    \E i \in 1..Len(witnesses) :
        /\ witnesses[i].id = Id_w1
        /\ witnesses[i].contextOf = Id_r2
        /\ witnesses[i].position = <<97, 3>>

\* C34: reWitness on an id the store does not hold changes nothing: the main store
\* keeps its content, starts no proof and sends nothing; the P2P store keeps
\* witnessMemory and its witnesses list, sends nothing, and the call returns false.
C34_ReWitnessMissing ==
    [][ /\ \A witnessId \in ReWitnessIds :
               ( ReWitnessStart(witnessId) /\ findIndex(witnesses, witnessId) = 0 )
               => /\ witnesses' = witnesses
                  /\ pendingReWitness' = pendingReWitness
                  /\ gunPuts' = gunPuts
                  /\ sent' = {}
        /\ \A witnessId \in {Id_w1, Id_r2, Id_r3} :
               ( P2PReWitness(witnessId) /\ findIndex(p2p.witnessMemory, witnessId) = 0 )
               => /\ p2p'.witnessMemory = p2p.witnessMemory
                  /\ p2p'.witnesses = p2p.witnesses
                  /\ p2p'.sent = {}
                  /\ p2pReWitnessResult(p2p.witnessMemory, witnessId) = FALSE
      ]_vars

\* both stores hold a witness, neither holds r3, and the P2P store has an open data
\* channel on which a re-validation would go out
C34_Witness ==
    /\ witnesses # <<>>
    /\ findIndex(witnesses, Id_r2) = 0
    /\ p2p.witnessMemory # <<>>
    /\ findIndex(p2p.witnessMemory, Id_r3) = 0
    /\ p2p.open # {}
    /\ p2p.sent = {}

C36_NoLostReWitness ==
    [][ ( /\ pendingReWitness'[Id_r1] < pendingReWitness[Id_r1]
          /\ findIndex(witnesses, Id_r1) # 0 )
        => /\ Len(witnesses') = Len(witnesses)
           /\ witnesses'[findIndex(witnesses, Id_r1)].id = Id_r1
           /\ witnesses'[findIndex(witnesses, Id_r1)].witnessCount
                  = witnesses[findIndex(witnesses, Id_r1)].witnessCount + 1
           /\ \E message \in sent' : message.data.witnessCount
                  = witnesses[findIndex(witnesses, Id_r1)].witnessCount + 1
      ]_vars

\* three calls were in flight together and all have completed: r1, received with a
\* count of 1, now has a count of 4
C36_Witness ==
    /\ pow.phase = "rewitnessed"
    /\ pendingReWitness[Id_r1] = 0
    /\ findIndex(witnesses, Id_r1) # 0
    /\ witnesses[findIndex(witnesses, Id_r1)].witnessCount = 1 + MaxOverlap
    /\ witnesses[findIndex(witnesses, Id_r1)].lastWitnessed = StartTime

\* C37: auto-validation is exclusive: at most one reWitness call started by a
\* validation timer is in flight; a timer callback that starts a reWitness targets
\* the selected contextWitnessId; and the timer that starts it is the one created
\* for the current selection, never one left from a selection since switched or
\* cancelled.
C37_AutoValidationExclusive ==
    /\ [](Cardinality(page.calls) <= 1)
    /\ [][ \A call \in page.calls' \ page.calls :
              /\ call.witnessId = page.contextWitnessId
              /\ call.witnessId = page'.contextWitnessId
              /\ call.interval = page.validationInterval
              /\ page.calls = {}
         ]_vars

\* a reWitness started by the timer of the second selection awaits its return, after
\* the context was switched away from an earlier selection
C37_Witness ==
    /\ page.created >= 2
    /\ page.calls # {}
    /\ \A call \in page.calls : call.interval = page.created
    /\ page.isValidating

\* C38: the emergency store is first-write-wins: when its relay listener is called
\* with a record whose id the store already holds, the store's witnesses are left
\* exactly as they were: no entry is added, removed or changed in any field.
C38_FirstWriteWins ==
    [][ \A input \in EmergencyInputs \cup {<<m.key, m.data>> : m \in emergency.sent} :
            ( /\ EmergencyGunOn(input[1], input[2])
              /\ input[2] # NullData
              /\ findIndex(emergency.witnesses, input[2].id) # 0 )
            => emergency'.witnesses = emergency.witnesses
      ]_vars

\* r1 is held with the count of 1 it was first received with, and the last record
\* the relay listener was called with is a record of r1 with a larger count
C38_Witness ==
    /\ lastDelivered = Delivery("put", Id_r1, RecordOvercounted)
    /\ findIndex(emergency.witnesses, Id_r1) # 0
    /\ emergency.witnesses[findIndex(emergency.witnesses, Id_r1)].witnessCount = 1
    /\ RecordOvercounted.witnessCount > 1

\* C39: a message from a peer changes an entry witnessMemory already holds in its
\* witnessCount at most, and only to a larger count that the message carries for
\* that id in a witness-sync or witness-update; text, createdAt, expiresAt, contextOf
\* and position stay.  A witness-update adds no entry, and a witness-new for an id
\* that is held leaves witnessMemory as it was.
C39_PeerMerge ==
    [][ \A message \in MergeMessages :
            P2PChannelMessage("p1", message)
            => /\ \A e \in 1..Len(p2p.witnessMemory) :
                    LET held   == p2p.witnessMemory[e]
                        merged == p2p'.witnessMemory[e]
                    IN  /\ Len(p2p'.witnessMemory) >= e
                        /\ merged = [held EXCEPT !.witnessCount = merged.witnessCount]
                        /\ merged.witnessCount >= held.witnessCount
                        /\ merged.witnessCount > held.witnessCount
                           => /\ message.type \in {"witness-sync", "witness-update"}
                              /\ \E i \in 1..Len(message.witnesses) :
                                     /\ message.witnesses[i].id = held.id
                                     /\ message.witnesses[i].witnessCount
                                            = merged.witnessCount
               /\ message.type = "witness-update"
                  => Len(p2p'.witnessMemory) = Len(p2p.witnessMemory)
               /\ ( /\ message.type = "witness-new"
                    /\ findIndex(p2p.witnessMemory, message.witnesses[1].id) # 0 )
                  => p2p'.witnessMemory = p2p.witnessMemory
      ]_vars

\* r1 is held as first received but with the count of 3 that only a peer's update
\* carries, and that update has another text, creation time, expiry and position
C39_Witness ==
    /\ findIndex(p2p.witnessMemory, Id_r1) # 0
    /\ p2p.witnessMemory[findIndex(p2p.witnessMemory, Id_r1)]
           = [PeerWitnessLong EXCEPT !.witnessCount = PeerWitnessRetold.witnessCount]
    /\ PeerWitnessRetold.position # PeerWitnessLong.position
    /\ PeerWitnessRetold.expiresAt # PeerWitnessLong.expiresAt

\* C40: in the main store a tab or WebRTC message leaves the witnesses as they were
\* when it is an UPDATE_WITNESS for an id the store does not hold (the witness is
\* not added) and when it is a NEW_WITNESS for an id the store holds.
C40_MessageForWrongState ==
    [][ \A m \in PeerMessages :
            ( /\ TabDelivery(m) \/ WebRTCDelivery(m)
              /\ \/ m.type = "UPDATE_WITNESS" /\ findIndex(witnesses, m.data.id) = 0
                 \/ m.type = "NEW_WITNESS" /\ findIndex(witnesses, m.data.id) # 0 )
            => witnesses' = witnesses
      ]_vars

\* the update of r1 was the last message delivered, to a store that has received
\* no record from the relay and holds no witness: the update is lost
C40_Witness ==
    /\ lastDelivered = Delivery("UPDATE_WITNESS", Id_r1, parseWitness(RecordA))
    /\ witnesses = <<>>
    /\ loadedWitnessIds = <<>>
    /\ now = StartTime

====
